---- MODULE Spec2Model ----
(***************************************************************************)
(* Meta-tool registry and dispatch of the Portainer MCP server.            *)
(*                                                                         *)
(* The server keeps a read-only flag and a tool registry.  RegisterMetaTools*)
(* walks the catalog returned by metaToolDefinitions and hands every group *)
(* to registerOneMetaTool, which filters the group's actions by the        *)
(* read-only flag, builds the action enum and the dispatch map, resolves   *)
(* the annotation and adds the tool with the routing closure built by      *)
(* makeMetaHandler.  A tools/call then runs that closure.                  *)
(*                                                                         *)
(* Strings built with fmt.Sprintf / strings.Join are sequences of their    *)
(* pieces.  A handler is identified by the name of the method the catalog  *)
(* binds (HandleGetUsers, ...).  A *bool hint is its pointee: every hint   *)
(* the catalog declares and every hint registerOneMetaTool sets is non-nil.*)
(***************************************************************************)
EXTENDS Integers, Sequences, FiniteSets, TLC

\* Longest action list of a generated test definition.
MaxActions == 2
\* Longest generated test catalog.
MaxGroups == 2
\* Largest dispatch map whose iteration orders are all enumerated.
MaxPermLen == 3
\* Number of tools/call requests the transport serves at the same time.
MaxCalls == 2
\* Longest raw URL, in pieces, handed to validateURL.
MaxUrlLen == 4

VARIABLES
  readOnly,   \* PortainerMCPServer.readOnly
  defs,       \* RegisterMetaTools: defs, the catalog being registered
  idx,        \* RegisterMetaTools: position of the range loop (1-based)
  pc,         \* "new", "registering", "serving"
  tools,      \* s.srv: registered tools by name (tool + routing closure)
  bound,      \* handlers produced by a.handler(s), in call order
  last,       \* <<>>, <<c>> or <<first, latest>>: tools/call records
  inflight,   \* per goroutine of the transport: the call it is running
  reg,        \* registerOneMetaTool run statement by statement: its locals
  urlCheck    \* <<>> or <<c>>: a validateURL call, its argument and result

vars == <<readOnly, defs, idx, pc, tools, bound, last, inflight, reg, urlCheck>>

----------------------------------------------------------------------------
\* Catalog types (metatool_registry.go)

metaAction(n, h, ro) == [name |-> n, handler |-> h, readOnly |-> ro]

ToolAnnotation(title, ro, destructive, idempotent, openWorld) ==
  [Title |-> title, ReadOnlyHint |-> ro, DestructiveHint |-> destructive,
   IdempotentHint |-> idempotent, OpenWorldHint |-> openWorld]

metaToolDef(n, d, acts, ann) ==
  [name |-> n, description |-> d, actions |-> acts, annotation |-> ann]

boolPtr(v) == v

defManageEnvironments ==
  metaToolDef("manage_environments",
    "Manage Portainer environments (endpoints), environment groups, and environment tags. Use the 'action' parameter to specify the operation.",
    <<
      metaAction("list_environments", "HandleGetEnvironments", TRUE),
      metaAction("get_environment", "HandleGetEnvironment", TRUE),
      metaAction("delete_environment", "HandleDeleteEnvironment", FALSE),
      metaAction("snapshot_environment", "HandleSnapshotEnvironment", FALSE),
      metaAction("snapshot_all_environments", "HandleSnapshotAllEnvironments", FALSE),
      metaAction("update_environment_tags", "HandleUpdateEnvironmentTags", FALSE),
      metaAction("update_environment_user_accesses", "HandleUpdateEnvironmentUserAccesses", FALSE),
      metaAction("update_environment_team_accesses", "HandleUpdateEnvironmentTeamAccesses", FALSE),
      metaAction("list_environment_groups", "HandleGetEnvironmentGroups", TRUE),
      metaAction("create_environment_group", "HandleCreateEnvironmentGroup", FALSE),
      metaAction("update_environment_group_name", "HandleUpdateEnvironmentGroupName", FALSE),
      metaAction("update_environment_group_environments", "HandleUpdateEnvironmentGroupEnvironments", FALSE),
      metaAction("update_environment_group_tags", "HandleUpdateEnvironmentGroupTags", FALSE),
      metaAction("list_environment_tags", "HandleGetEnvironmentTags", TRUE),
      metaAction("create_environment_tag", "HandleCreateEnvironmentTag", FALSE),
      metaAction("delete_environment_tag", "HandleDeleteEnvironmentTag", FALSE)
    >>,
    ToolAnnotation("Manage Environments", FALSE, TRUE, FALSE, FALSE))

defManageStacks ==
  metaToolDef("manage_stacks",
    "Manage Portainer stacks (Docker Compose and Edge stacks). Use the 'action' parameter to specify the operation.",
    <<
      metaAction("list_stacks", "HandleGetStacks", TRUE),
      metaAction("list_regular_stacks", "HandleListRegularStacks", TRUE),
      metaAction("get_stack", "HandleInspectStack", TRUE),
      metaAction("get_stack_file", "HandleGetStackFile", TRUE),
      metaAction("inspect_stack_file", "HandleInspectStackFile", TRUE),
      metaAction("create_stack", "HandleCreateStack", FALSE),
      metaAction("update_stack", "HandleUpdateStack", FALSE),
      metaAction("delete_stack", "HandleDeleteStack", FALSE),
      metaAction("update_stack_git", "HandleUpdateStackGit", FALSE),
      metaAction("redeploy_stack_git", "HandleRedeployStackGit", FALSE),
      metaAction("start_stack", "HandleStartStack", FALSE),
      metaAction("stop_stack", "HandleStopStack", FALSE),
      metaAction("migrate_stack", "HandleMigrateStack", FALSE)
    >>,
    ToolAnnotation("Manage Stacks", FALSE, TRUE, FALSE, FALSE))

defManageAccessGroups ==
  metaToolDef("manage_access_groups",
    "Manage Portainer access groups and their user/team access policies. Use the 'action' parameter to specify the operation.",
    <<
      metaAction("list_access_groups", "HandleGetAccessGroups", TRUE),
      metaAction("create_access_group", "HandleCreateAccessGroup", FALSE),
      metaAction("update_access_group_name", "HandleUpdateAccessGroupName", FALSE),
      metaAction("update_access_group_user_accesses", "HandleUpdateAccessGroupUserAccesses", FALSE),
      metaAction("update_access_group_team_accesses", "HandleUpdateAccessGroupTeamAccesses", FALSE),
      metaAction("add_environment_to_access_group", "HandleAddEnvironmentToAccessGroup", FALSE),
      metaAction("remove_environment_from_access_group", "HandleRemoveEnvironmentFromAccessGroup", FALSE)
    >>,
    ToolAnnotation("Manage Access Groups", FALSE, TRUE, FALSE, FALSE))

defManageUsers ==
  metaToolDef("manage_users",
    "Manage Portainer users. Use the 'action' parameter to specify the operation.",
    <<
      metaAction("list_users", "HandleGetUsers", TRUE),
      metaAction("get_user", "HandleGetUser", TRUE),
      metaAction("create_user", "HandleCreateUser", FALSE),
      metaAction("delete_user", "HandleDeleteUser", FALSE),
      metaAction("update_user_role", "HandleUpdateUserRole", FALSE)
    >>,
    ToolAnnotation("Manage Users", FALSE, TRUE, FALSE, FALSE))

\* Faulty variant of the manage_teams group: get_team declared under the
\* name get_user, which manage_users already uses.
defManageTeamsReusedName ==
  metaToolDef("manage_teams",
    "Manage Portainer teams and team membership. Use the 'action' parameter to specify the operation.",
    <<
      metaAction("list_teams", "HandleGetTeams", TRUE),
      metaAction("get_user", "HandleGetTeam", TRUE),
      metaAction("create_team", "HandleCreateTeam", FALSE),
      metaAction("delete_team", "HandleDeleteTeam", FALSE),
      metaAction("update_team_name", "HandleUpdateTeamName", FALSE),
      metaAction("update_team_members", "HandleUpdateTeamMembers", FALSE)
    >>,
    ToolAnnotation("Manage Teams", FALSE, TRUE, FALSE, FALSE))

defManageTeams ==
  metaToolDef("manage_teams",
    "Manage Portainer teams and team membership. Use the 'action' parameter to specify the operation.",
    <<
      metaAction("list_teams", "HandleGetTeams", TRUE),
      metaAction("get_team", "HandleGetTeam", TRUE),
      metaAction("create_team", "HandleCreateTeam", FALSE),
      metaAction("delete_team", "HandleDeleteTeam", FALSE),
      metaAction("update_team_name", "HandleUpdateTeamName", FALSE),
      metaAction("update_team_members", "HandleUpdateTeamMembers", FALSE)
    >>,
    ToolAnnotation("Manage Teams", FALSE, TRUE, FALSE, FALSE))

\* Faulty variant of the manage_docker group: the dashboard marked as a write
\* action, which leaves the group without a read-only action.
defManageDockerAllWrite ==
  metaToolDef("manage_docker",
    "Interact with Docker environments via proxy API calls and dashboards. Use the 'action' parameter to specify the operation.",
    <<
      metaAction("get_docker_dashboard", "HandleGetDockerDashboard", FALSE),
      metaAction("docker_proxy", "HandleDockerProxy", FALSE)
    >>,
    ToolAnnotation("Manage Docker", FALSE, TRUE, FALSE, TRUE))

defManageDocker ==
  metaToolDef("manage_docker",
    "Interact with Docker environments via proxy API calls and dashboards. Use the 'action' parameter to specify the operation.",
    <<
      metaAction("get_docker_dashboard", "HandleGetDockerDashboard", TRUE),
      metaAction("docker_proxy", "HandleDockerProxy", FALSE)
    >>,
    ToolAnnotation("Manage Docker", FALSE, TRUE, FALSE, TRUE))

defManageKubernetes ==
  metaToolDef("manage_kubernetes",
    "Interact with Kubernetes environments via proxy API calls, dashboards, namespaces, and kubeconfig. Use the 'action' parameter to specify the operation.",
    <<
      metaAction("get_kubernetes_resource_stripped", "HandleKubernetesProxyStripped", TRUE),
      metaAction("get_kubernetes_dashboard", "HandleGetKubernetesDashboard", TRUE),
      metaAction("list_kubernetes_namespaces", "HandleListKubernetesNamespaces", TRUE),
      metaAction("get_kubernetes_config", "HandleGetKubernetesConfig", TRUE),
      metaAction("kubernetes_proxy", "HandleKubernetesProxy", FALSE)
    >>,
    ToolAnnotation("Manage Kubernetes", FALSE, TRUE, FALSE, TRUE))

defManageHelm ==
  metaToolDef("manage_helm",
    "Manage Helm repositories, charts, and releases. Use the 'action' parameter to specify the operation.",
    <<
      metaAction("list_helm_repositories", "HandleListHelmRepositories", TRUE),
      metaAction("search_helm_charts", "HandleSearchHelmCharts", TRUE),
      metaAction("list_helm_releases", "HandleListHelmReleases", TRUE),
      metaAction("get_helm_release_history", "HandleGetHelmReleaseHistory", TRUE),
      metaAction("add_helm_repository", "HandleAddHelmRepository", FALSE),
      metaAction("remove_helm_repository", "HandleRemoveHelmRepository", FALSE),
      metaAction("install_helm_chart", "HandleInstallHelmChart", FALSE),
      metaAction("delete_helm_release", "HandleDeleteHelmRelease", FALSE)
    >>,
    ToolAnnotation("Manage Helm", FALSE, TRUE, FALSE, FALSE))

defManageRegistries ==
  metaToolDef("manage_registries",
    "Manage Docker registries (Quay, Azure, DockerHub, GitLab, ECR, custom). Use the 'action' parameter to specify the operation.",
    <<
      metaAction("list_registries", "HandleListRegistries", TRUE),
      metaAction("get_registry", "HandleGetRegistry", TRUE),
      metaAction("create_registry", "HandleCreateRegistry", FALSE),
      metaAction("update_registry", "HandleUpdateRegistry", FALSE),
      metaAction("delete_registry", "HandleDeleteRegistry", FALSE)
    >>,
    ToolAnnotation("Manage Registries", FALSE, TRUE, FALSE, FALSE))

defManageTemplates ==
  metaToolDef("manage_templates",
    "Manage custom templates and application templates. Use the 'action' parameter to specify the operation.",
    <<
      metaAction("list_custom_templates", "HandleListCustomTemplates", TRUE),
      metaAction("get_custom_template", "HandleGetCustomTemplate", TRUE),
      metaAction("get_custom_template_file", "HandleGetCustomTemplateFile", TRUE),
      metaAction("create_custom_template", "HandleCreateCustomTemplate", FALSE),
      metaAction("delete_custom_template", "HandleDeleteCustomTemplate", FALSE),
      metaAction("list_app_templates", "HandleListAppTemplates", TRUE),
      metaAction("get_app_template_file", "HandleGetAppTemplateFile", TRUE)
    >>,
    ToolAnnotation("Manage Templates", FALSE, TRUE, FALSE, FALSE))

defManageBackups ==
  metaToolDef("manage_backups",
    "Manage Portainer server backups (local and S3). Use the 'action' parameter to specify the operation.",
    <<
      metaAction("get_backup_status", "HandleGetBackupStatus", TRUE),
      metaAction("get_backup_s3_settings", "HandleGetBackupS3Settings", TRUE),
      metaAction("create_backup", "HandleCreateBackup", FALSE),
      metaAction("backup_to_s3", "HandleBackupToS3", FALSE),
      metaAction("restore_from_s3", "HandleRestoreFromS3", FALSE)
    >>,
    ToolAnnotation("Manage Backups", FALSE, TRUE, FALSE, FALSE))

defManageWebhooks ==
  metaToolDef("manage_webhooks",
    "Manage webhooks for services and containers. Use the 'action' parameter to specify the operation.",
    <<
      metaAction("list_webhooks", "HandleListWebhooks", TRUE),
      metaAction("create_webhook", "HandleCreateWebhook", FALSE),
      metaAction("delete_webhook", "HandleDeleteWebhook", FALSE)
    >>,
    ToolAnnotation("Manage Webhooks", FALSE, TRUE, FALSE, FALSE))

defManageEdge ==
  metaToolDef("manage_edge",
    "Manage Edge jobs and Edge update schedules. Use the 'action' parameter to specify the operation.",
    <<
      metaAction("list_edge_jobs", "HandleListEdgeJobs", TRUE),
      metaAction("get_edge_job", "HandleGetEdgeJob", TRUE),
      metaAction("get_edge_job_file", "HandleGetEdgeJobFile", TRUE),
      metaAction("create_edge_job", "HandleCreateEdgeJob", FALSE),
      metaAction("delete_edge_job", "HandleDeleteEdgeJob", FALSE),
      metaAction("list_edge_update_schedules", "HandleListEdgeUpdateSchedules", TRUE)
    >>,
    ToolAnnotation("Manage Edge", FALSE, TRUE, FALSE, FALSE))

defManageSettings ==
  metaToolDef("manage_settings",
    "Manage Portainer server settings, public settings, and SSL configuration. Use the 'action' parameter to specify the operation.",
    <<
      metaAction("get_settings", "HandleGetSettings", TRUE),
      metaAction("get_public_settings", "HandleGetPublicSettings", TRUE),
      metaAction("update_settings", "HandleUpdateSettings", FALSE),
      metaAction("get_ssl_settings", "HandleGetSSLSettings", TRUE),
      metaAction("update_ssl_settings", "HandleUpdateSSLSettings", FALSE)
    >>,
    ToolAnnotation("Manage Settings", FALSE, FALSE, TRUE, FALSE))

defManageSystem ==
  metaToolDef("manage_system",
    "System information, roles, message of the day, and authentication. Use the 'action' parameter to specify the operation.",
    <<
      metaAction("get_system_status", "HandleGetSystemStatus", TRUE),
      metaAction("list_roles", "HandleListRoles", TRUE),
      metaAction("get_motd", "HandleGetMOTD", TRUE),
      metaAction("authenticate", "HandleAuthenticateUser", TRUE),
      metaAction("logout", "HandleLogout", FALSE)
    >>,
    ToolAnnotation("Manage System", FALSE, FALSE, FALSE, FALSE))

metaToolDefinitions ==
  << defManageEnvironments,
     defManageStacks,
     defManageAccessGroups,
     defManageUsers,
     defManageTeams,
     defManageDocker,
     defManageKubernetes,
     defManageHelm,
     defManageRegistries,
     defManageTemplates,
     defManageBackups,
     defManageWebhooks,
     defManageEdge,
     defManageSettings,
     defManageSystem >>

----------------------------------------------------------------------------
\* Helpers

Range(s) == {s[i] : i \in 1..Len(s)}

SeqsUpTo(S, n) == UNION {[1..k -> S] : k \in 0..n}

\* strings.Join(elems, sep), as the sequence of pieces.
RECURSIVE Join(_, _)
Join(elems, sep) ==
  IF Len(elems) = 0 THEN <<>>
  ELSE IF Len(elems) = 1 THEN <<elems[1]>>
  ELSE <<elems[1], sep>> \o Join(Tail(elems), sep)

EmptyMap == [k \in {} |-> k]

----------------------------------------------------------------------------
\* registerOneMetaTool (metatool_handler.go)

\* Lines 28-34: the loop that appends every action the mode permits.
RECURSIVE FilterActions(_, _, _)
FilterActions(actions, ro, i) ==
  IF i > Len(actions) THEN <<>>
  ELSE IF ro /\ ~actions[i].readOnly THEN FilterActions(actions, ro, i + 1)
  ELSE <<actions[i]>> \o FilterActions(actions, ro, i + 1)

\* Faulty variants of the filter: no filtering at all, and the readOnly test
\* inverted.
AvailableUnfiltered(def, ro) == def.actions

AvailableInverted(def, ro) ==
  SelectSeq(def.actions, LAMBDA a : ~(ro /\ a.readOnly))

\* Faulty variant: each mode keeps only the actions of its own kind.
AvailableExclusive(def, ro) ==
  SelectSeq(def.actions, LAMBDA a : a.readOnly = ro)

Available(def, ro) == FilterActions(def.actions, ro, 1)

\* Lines 41-46: actionNames[i] = a.name
ActionNames(available) == [i \in 1..Len(available) |-> available[i].name]

\* Lines 42-46: handlers[a.name] = a.handler(s); a later assignment to the
\* same key replaces the earlier one.
LastIndexOf(available, n) ==
  CHOOSE i \in 1..Len(available) :
    /\ available[i].name = n
    /\ \A j \in (i + 1)..Len(available) : available[j].name # n

Handlers(available) ==
  [n \in {available[i].name : i \in 1..Len(available)} |->
     available[LastIndexOf(available, n)].handler]

\* Line 45: the handler factories called, one per available action.
FactoryCalls(available) == [i \in 1..Len(available) |-> available[i].handler]

\* Lines 50-61: the annotation of the registered tool.
AllReadOnly(available) == \A i \in 1..Len(available) : available[i].readOnly

\* Faulty variants of the annotation: allReadOnly computed over the declared
\* actions instead of the available ones, and allReadOnly never reset.
AnnotationFromDeclared(def, available) ==
  IF AllReadOnly(def.actions)
  THEN [def.annotation EXCEPT !.ReadOnlyHint = boolPtr(TRUE),
                              !.DestructiveHint = boolPtr(FALSE)]
  ELSE def.annotation

AnnotationAlwaysReadOnly(def, available) ==
  [def.annotation EXCEPT !.ReadOnlyHint = boolPtr(TRUE),
                         !.DestructiveHint = boolPtr(FALSE)]

\* Faulty variant: a fresh read-only annotation instead of two fields set.
AnnotationReplaced(def, available) ==
  IF AllReadOnly(available)
  THEN ToolAnnotation(def.annotation.Title, boolPtr(TRUE), boolPtr(FALSE),
                      boolPtr(TRUE), boolPtr(FALSE))
  ELSE def.annotation

Annotation(def, available) ==
  IF AllReadOnly(available)
  THEN [def.annotation EXCEPT !.ReadOnlyHint = boolPtr(TRUE),
                              !.DestructiveHint = boolPtr(FALSE)]
  ELSE def.annotation

\* Faulty variant of the tool: a parameter of a sub-operation declared too.
NewToolWithId(def, annotation, actionNames) ==
  [name |-> def.name,
   description |-> def.description,
   annotations |-> annotation,
   required |-> <<"action">>,
   properties |->
     [action |->
        [type |-> "string",
         description |-> <<"The operation to perform. Available actions: ">>
                           \o Join(actionNames, ", "),
         enum |-> actionNames],
      id |->
        [type |-> "number",
         description |-> <<"The ID of the user">>,
         enum |-> <<>>]]]

\* Lines 64-72: mcp.NewTool with one required string parameter "action".
NewTool(def, annotation, actionNames) ==
  [name |-> def.name,
   description |-> def.description,
   annotations |-> annotation,
   required |-> <<"action">>,
   properties |->
     [action |->
        [type |-> "string",
         description |-> <<"The operation to perform. Available actions: ">>
                           \o Join(actionNames, ", "),
         enum |-> actionNames]]]

\* Line 75: s.srv.AddTool(tool, handler) stores the pair under the tool's
\* name; the routing closure is kept as the values it captured.
AddTool(ts, tool, metaToolName, handlers) ==
  [n \in (DOMAIN ts) \cup {tool.name} |->
     IF n = tool.name
     THEN [tool |-> tool, metaToolName |-> metaToolName, handlers |-> handlers]
     ELSE ts[n]]

\* Faulty variants of registerOneMetaTool: the early return on an empty list
\* left out, and the dispatch map built from the unfiltered actions.
registerOneMetaToolNoSkip(ts, def, ro) ==
  LET available == Available(def, ro) IN
  AddTool(ts,
          NewTool(def, Annotation(def, available), ActionNames(available)),
          def.name,
          Handlers(available))

registerOneMetaToolAllHandlers(ts, def, ro) ==
  LET available == Available(def, ro) IN
  IF Len(available) = 0 THEN ts
  ELSE AddTool(ts,
               NewTool(def, Annotation(def, available), ActionNames(available)),
               def.name,
               Handlers(def.actions))

\* Faulty variant: one handlers map kept by the server and filled by every
\* group, instead of a map made per call (line 42).
registerOneMetaToolSharedMap(ts, def, ro) ==
  LET available == Available(def, ro)
      prior == [k \in UNION {DOMAIN ts[n].handlers : n \in DOMAIN ts} |->
                  ts[CHOOSE n \in DOMAIN ts : k \in DOMAIN ts[n].handlers].handlers[k]]
  IN IF Len(available) = 0 THEN ts
     ELSE AddTool(ts,
                  NewTool(def, Annotation(def, available), ActionNames(available)),
                  def.name,
                  Handlers(available) @@ prior)

registerOneMetaTool(ts, def, ro) ==
  LET available == Available(def, ro) IN
  IF Len(available) = 0 THEN ts
  ELSE AddTool(ts,
               NewTool(def, Annotation(def, available), ActionNames(available)),
               def.name,
               Handlers(available))

\* Faulty variant: the factories called for every declared action.
registerOneFactoryCallsAll(def, ro) == FactoryCalls(def.actions)

\* The a.handler(s) calls registerOneMetaTool makes: none on the early return.
registerOneFactoryCalls(def, ro) == FactoryCalls(Available(def, ro))

\* registerOneMetaTool statement by statement.  r holds the locals, line the
\* statement to run next; the result is the locals, the server's tools, the
\* a.handler(s) calls made and the caller's def after the statement.
EnterReg ==
  [line |-> "filter", available |-> <<>>, i |-> 0, actionNames |-> <<>>,
   handlers |-> EmptyMap, annotation |-> <<>>, tool |-> <<>>]

Stepped(r, ts, calls, def) == [reg |-> r, tools |-> ts, calls |-> calls, def |-> def]

\* Faulty variant: the tool added to the server before its map is filled, the
\* closure sharing the map that lines 43-46 go on to fill.
regStepPublishFirst(r, ts, def, ro) ==
  CASE r.line = "filter" ->
         Stepped([r EXCEPT !.line = "check", !.available = Available(def, ro)],
                 ts, <<>>, def)
    [] r.line = "check" ->
         IF Len(r.available) = 0
         THEN Stepped([r EXCEPT !.line = "return"], ts, <<>>, def)
         ELSE Stepped([r EXCEPT !.line = "build", !.i = 1,
                         !.actionNames = [j \in 1..Len(r.available) |-> ""],
                         !.handlers = EmptyMap],
                      AddTool(ts, NewTool(def, def.annotation, <<>>), def.name,
                              EmptyMap),
                      <<>>, def)
    [] r.line = "build" ->
         IF r.i <= Len(r.available)
         THEN LET a == r.available[r.i]
                  hs == (a.name :> a.handler) @@ r.handlers
              IN Stepped([r EXCEPT !.i = r.i + 1,
                            !.actionNames = [r.actionNames EXCEPT ![r.i] = a.name],
                            !.handlers = hs],
                         [ts EXCEPT ![def.name].handlers = hs],
                         <<a.handler>>, def)
         ELSE Stepped([r EXCEPT !.line = "annotate"], ts, <<>>, def)
    [] r.line = "annotate" ->
         Stepped([r EXCEPT !.line = "newtool",
                    !.annotation = Annotation(def, r.available)], ts, <<>>, def)
    [] r.line = "newtool" ->
         Stepped([r EXCEPT !.line = "addtool",
                    !.tool = NewTool(def, r.annotation, r.actionNames)],
                 ts, <<>>, def)
    [] r.line = "addtool" ->
         Stepped([r EXCEPT !.line = "return"],
                 AddTool(ts, r.tool, def.name, r.handlers), <<>>, def)

\* Faulty variant: annotation an alias of def.annotation instead of a copy,
\* so that lines 59-60 write into the definition.
regStepAliasing(r, ts, def, ro) ==
  CASE r.line = "filter" ->
         Stepped([r EXCEPT !.line = "check", !.available = Available(def, ro)],
                 ts, <<>>, def)
    [] r.line = "check" ->
         IF Len(r.available) = 0
         THEN Stepped([r EXCEPT !.line = "return"], ts, <<>>, def)
         ELSE Stepped([r EXCEPT !.line = "build", !.i = 1,
                         !.actionNames = [j \in 1..Len(r.available) |-> ""],
                         !.handlers = EmptyMap],
                      ts, <<>>, def)
    [] r.line = "build" ->
         IF r.i <= Len(r.available)
         THEN LET a == r.available[r.i] IN
              Stepped([r EXCEPT !.i = r.i + 1,
                         !.actionNames = [r.actionNames EXCEPT ![r.i] = a.name],
                         !.handlers = (a.name :> a.handler) @@ r.handlers],
                      ts, <<a.handler>>, def)
         ELSE Stepped([r EXCEPT !.line = "annotate"], ts, <<>>, def)
    [] r.line = "annotate" ->
         Stepped([r EXCEPT !.line = "newtool",
                    !.annotation = Annotation(def, r.available)],
                 ts, <<>>,
                 [def EXCEPT !.annotation = Annotation(def, r.available)])
    [] r.line = "newtool" ->
         Stepped([r EXCEPT !.line = "addtool",
                    !.tool = NewTool(def, r.annotation, r.actionNames)],
                 ts, <<>>, def)
    [] r.line = "addtool" ->
         Stepped([r EXCEPT !.line = "return"],
                 AddTool(ts, r.tool, def.name, r.handlers), <<>>, def)

regStep(r, ts, def, ro) ==
  CASE r.line = "filter" ->       \* lines 28-34
         Stepped([r EXCEPT !.line = "check", !.available = Available(def, ro)],
                 ts, <<>>, def)
    [] r.line = "check" ->        \* lines 36-42
         IF Len(r.available) = 0
         THEN Stepped([r EXCEPT !.line = "return"], ts, <<>>, def)
         ELSE Stepped([r EXCEPT !.line = "build", !.i = 1,
                         !.actionNames = [j \in 1..Len(r.available) |-> ""],
                         !.handlers = EmptyMap],
                      ts, <<>>, def)
    [] r.line = "build" ->        \* lines 43-46, one iteration
         IF r.i <= Len(r.available)
         THEN LET a == r.available[r.i] IN
              Stepped([r EXCEPT !.i = r.i + 1,
                         !.actionNames = [r.actionNames EXCEPT ![r.i] = a.name],
                         !.handlers = (a.name :> a.handler) @@ r.handlers],
                      ts, <<a.handler>>, def)
         ELSE Stepped([r EXCEPT !.line = "annotate"], ts, <<>>, def)
    [] r.line = "annotate" ->     \* lines 50-61, on a copy of def.annotation
         Stepped([r EXCEPT !.line = "newtool",
                    !.annotation = Annotation(def, r.available)], ts, <<>>, def)
    [] r.line = "newtool" ->      \* lines 64-72
         Stepped([r EXCEPT !.line = "addtool",
                    !.tool = NewTool(def, r.annotation, r.actionNames)],
                 ts, <<>>, def)
    [] r.line = "addtool" ->      \* line 75
         Stepped([r EXCEPT !.line = "return"],
                 AddTool(ts, r.tool, def.name, r.handlers), <<>>, def)

----------------------------------------------------------------------------
\* AddUserFeatures (user.go): the granular user tools, as the handlers given to
\* addToolIfExists.

\* Faulty variant: the write tools registered without the readOnly test.
AddUserFeaturesNoGuard(ro) ==
  <<"HandleGetUsers", "HandleGetUser",
    "HandleCreateUser", "HandleDeleteUser", "HandleUpdateUserRole">>

AddUserFeatures(ro) ==
  <<"HandleGetUsers", "HandleGetUser">>
    \o (IF ~ro
        THEN <<"HandleCreateUser", "HandleDeleteUser", "HandleUpdateUserRole">>
        ELSE <<>>)

----------------------------------------------------------------------------
\* Requests, results and sub-handlers

StringVal(s) == [kind |-> "string", s |-> s]
NumberVal(s) == [kind |-> "number", s |-> s]
NullVal == [kind |-> "null", s |-> ""]

\* mcp.NewToolResultError / mcp.NewToolResultText
NewToolResultError(text) == [isNil |-> FALSE, isError |-> TRUE, content |-> text]
NewToolResultText(text) == [isNil |-> FALSE, isError |-> FALSE, content |-> text]
NilResult == [isNil |-> TRUE, isError |-> FALSE, content |-> <<>>]
NilError == <<>>

\* Handlers written by a test: any server.ToolHandlerFunc.
TestHandlerNames ==
  {"testListUsers", "testListUsersW", "testCreateUserR", "testCreateUser"}

\* What a sub-handler may return.  A handler of the server (user.go, system.go)
\* reports every failure as an error result and returns a nil error; a
\* handler written by a test may also return (nil, err).
HandlerOutcomes(h) ==
  { [result |-> NewToolResultText(<<h, ": ok">>), err |-> NilError],
    [result |-> NewToolResultError(<<h, ": failed">>), err |-> NilError] }
  \cup (IF h \in TestHandlerNames
        THEN {[result |-> NilResult, err |-> <<h, ": error">>]}
        ELSE {})

NoOutcome == [result |-> NilResult, err |-> NilError]

----------------------------------------------------------------------------
\* validateURL (validation helpers) and net/url.Parse

\* A raw URL is the sequence of its pieces: words of letters and dots, the
\* colon, a double slash, and a path segment with its leading slash.
UrlWords == {"http", "HTTP", "https", "oci", "ftp", "example.com"}
UrlSlashes == {"//", "/p"}
UrlPieces == UrlWords \cup UrlSlashes \cup {":"}

\* strings.ToLower on a word.
ToLower(w) == IF w = "HTTP" THEN "http" ELSE w

\* Index of the first piece of s that is in S, or 0.
FirstIn(s, S) ==
  IF \E i \in 1..Len(s) : s[i] \in S
  THEN CHOOSE i \in 1..Len(s) : s[i] \in S /\ \A j \in 1..(i - 1) : s[j] \notin S
  ELSE 0

LastColon(s) ==
  IF \E i \in 1..Len(s) : s[i] = ":"
  THEN CHOOSE i \in 1..Len(s) : s[i] = ":" /\ \A j \in (i + 1)..Len(s) : s[j] # ":"
  ELSE 0

\* url.getScheme: the letters before the first colon, if nothing else comes
\* before it; a colon in first place is an error.
getScheme(rawURL) ==
  LET stop == FirstIn(rawURL, UrlSlashes \cup {":"}) IN
  IF stop = 0 \/ rawURL[stop] # ":"
  THEN [scheme |-> <<>>, rest |-> rawURL, err |-> NilError]
  ELSE IF stop = 1
  THEN [scheme |-> <<>>, rest |-> <<>>, err |-> <<"missing protocol scheme">>]
  ELSE [scheme |-> SubSeq(rawURL, 1, stop - 1),
        rest |-> SubSeq(rawURL, stop + 1, Len(rawURL)), err |-> NilError]

\* url.parseHost: a colon in the authority starts a port, which is empty or
\* digits; no piece is made of digits.
parseHost(authority) ==
  LET k == LastColon(authority) IN
  IF k # 0 /\ k < Len(authority)
  THEN [host |-> <<>>, err |-> <<"invalid port">>]
  ELSE [host |-> authority, err |-> NilError]

\* url.Parse: Scheme lower-cased, Host the authority after a leading "//".
Parse(rawURL) ==
  LET s == getScheme(rawURL)
      scheme == [i \in 1..Len(s.scheme) |-> ToLower(s.scheme[i])]
      rest == s.rest
      slashFirst == rest # <<>> /\ rest[1] \in UrlSlashes
      twoSlashes == rest # <<>> /\ rest[1] = "//"
      threeSlashes == twoSlashes /\ Len(rest) >= 2 /\ rest[2] \in UrlSlashes
  IN IF s.err # NilError
     THEN [Scheme |-> <<>>, Host |-> <<>>, err |-> s.err]
     ELSE IF ~slashFirst /\ scheme # <<>>
     THEN [Scheme |-> scheme, Host |-> <<>>, err |-> NilError]
     ELSE IF ~slashFirst /\ FirstIn(rest, {":"}) # 0
     THEN [Scheme |-> <<>>, Host |-> <<>>,
           err |-> <<"first path segment in URL cannot contain colon">>]
     ELSE IF twoSlashes /\ (scheme # <<>> \/ ~threeSlashes)
     THEN LET after == Tail(rest)
              cut == FirstIn(after, UrlSlashes)
              authority == IF cut = 0 THEN after ELSE SubSeq(after, 1, cut - 1)
              h == parseHost(authority)
          IN [Scheme |-> scheme, Host |-> h.host, err |-> h.err]
     ELSE [Scheme |-> scheme, Host |-> <<>>, err |-> NilError]

\* Faulty variant: the test of the host left out.
validateURLNoHostCheck(rawURL) ==
  LET u == Parse(rawURL) IN
  IF u.err # NilError THEN <<"invalid URL: ">> \o u.err
  ELSE IF u.Scheme # <<"http">> /\ u.Scheme # <<"https">> /\ u.Scheme # <<"oci">>
  THEN <<"URL must use http, https, or oci scheme, got ">> \o u.Scheme
  ELSE NilError

\* Lines 39-51.
validateURL(rawURL) ==
  LET u == Parse(rawURL) IN
  IF u.err # NilError THEN <<"invalid URL: ">> \o u.err
  ELSE IF u.Scheme # <<"http">> /\ u.Scheme # <<"https">> /\ u.Scheme # <<"oci">>
  THEN <<"URL must use http, https, or oci scheme, got ">> \o u.Scheme
  ELSE IF u.Host = <<>>
  THEN <<"URL must include a host">>
  ELSE NilError

RawURLs == SeqsUpTo(UrlPieces, MaxUrlLen)

----------------------------------------------------------------------------
\* The user write handlers (user.go) and what they call

\* mcp.NewToolResultErrorFromErr(text, err): an error result "text: err".
NewToolResultErrorFromErr(text, err) == NewToolResultError(<<text, ": ">> \o err)

\* toolgen.ParameterParser.GetString(name, true) / GetInt(name, true): the
\* value of a required parameter, or an error when it is absent or of another
\* type.
GetString(args, name) ==
  IF name \notin DOMAIN args \/ args[name] = NullVal
  THEN [val |-> "", err |-> <<name, " is required">>]
  ELSE IF args[name].kind # "string"
  THEN [val |-> "", err |-> <<name, " must be a string">>]
  ELSE [val |-> args[name].s, err |-> NilError]

GetInt(args, name) ==
  IF name \notin DOMAIN args \/ args[name] = NullVal
  THEN [val |-> "0", err |-> <<name, " is required">>]
  ELSE IF args[name].kind # "number"
  THEN [val |-> "0", err |-> <<name, " must be a number">>]
  ELSE [val |-> args[name].s, err |-> NilError]

AllUserRoles == <<"admin", "user", "edge_admin">>
isValidUserRole(role) == role \in Range(AllUserRoles)

\* What the Portainer client answers: success or an error.
BackendOutcomes ==
  {[id |-> "5", err |-> NilError], [id |-> "0", err |-> <<"api error">>]}

Returned(result, calls) == [result |-> result, err |-> NilError, calls |-> calls]

\* Faulty variant: the role passed to the client without isValidUserRole.
HandleCreateUserNoRoleCheck(request, backend) ==
  LET args == request.args
      username == GetString(args, "username")
      password == GetString(args, "password")
      role == GetString(args, "role")
      call == [op |-> "CreateUser",
               args |-> <<username.val, password.val, role.val>>]
  IN IF username.err # NilError
     THEN Returned(NewToolResultErrorFromErr("invalid username parameter",
                                             username.err), <<>>)
     ELSE IF password.err # NilError
     THEN Returned(NewToolResultErrorFromErr("invalid password parameter",
                                             password.err), <<>>)
     ELSE IF role.err # NilError
     THEN Returned(NewToolResultErrorFromErr("invalid role parameter",
                                             role.err), <<>>)
     ELSE IF backend.err # NilError
     THEN Returned(NewToolResultErrorFromErr("failed to create user",
                                             backend.err), <<call>>)
     ELSE Returned(NewToolResultText(
                     <<"User created successfully with ID: ", backend.id>>),
                   <<call>>)

\* user.go 67-97
HandleCreateUser(request, backend) ==
  LET args == request.args
      username == GetString(args, "username")
      password == GetString(args, "password")
      role == GetString(args, "role")
      call == [op |-> "CreateUser",
               args |-> <<username.val, password.val, role.val>>]
  IN IF username.err # NilError
     THEN Returned(NewToolResultErrorFromErr("invalid username parameter",
                                             username.err), <<>>)
     ELSE IF password.err # NilError
     THEN Returned(NewToolResultErrorFromErr("invalid password parameter",
                                             password.err), <<>>)
     ELSE IF role.err # NilError
     THEN Returned(NewToolResultErrorFromErr("invalid role parameter",
                                             role.err), <<>>)
     ELSE IF ~isValidUserRole(role.val)
     THEN Returned(NewToolResultError(
                     <<"invalid role ", role.val, ": must be one of: ">>
                       \o AllUserRoles), <<>>)
     ELSE IF backend.err # NilError
     THEN Returned(NewToolResultErrorFromErr("failed to create user",
                                             backend.err), <<call>>)
     ELSE Returned(NewToolResultText(
                     <<"User created successfully with ID: ", backend.id>>),
                   <<call>>)

\* user.go 40-65
HandleUpdateUserRole(request, backend) ==
  LET args == request.args
      id == GetInt(args, "id")
      role == GetString(args, "role")
      call == [op |-> "UpdateUserRole", args |-> <<id.val, role.val>>]
  IN IF id.err # NilError
     THEN Returned(NewToolResultErrorFromErr("invalid id parameter", id.err),
                   <<>>)
     ELSE IF role.err # NilError
     THEN Returned(NewToolResultErrorFromErr("invalid role parameter",
                                             role.err), <<>>)
     ELSE IF ~isValidUserRole(role.val)
     THEN Returned(NewToolResultError(
                     <<"invalid role ", role.val, ": must be one of: ">>
                       \o AllUserRoles), <<>>)
     ELSE IF backend.err # NilError
     THEN Returned(NewToolResultErrorFromErr("failed to update user role",
                                             backend.err), <<call>>)
     ELSE Returned(NewToolResultText(<<"User updated successfully">>), <<call>>)

\* The closure a dispatch table holds under a handler's name.
RunUserHandler(h, request, backend) ==
  CASE h = "HandleCreateUser" -> HandleCreateUser(request, backend)
    [] h = "HandleUpdateUserRole" -> HandleUpdateUserRole(request, backend)

----------------------------------------------------------------------------
\* makeMetaHandler (metatool_handler.go)

MsgMissing == <<"missing required parameter: action">>
MsgInvalid == <<"parameter 'action' must be a non-empty string">>
MsgUnknown(action, metaToolName, available) ==
  <<"unknown action '", action, "' for tool '", metaToolName,
    "'. Available actions: ">> \o Join(available, ", ")

\* Faulty variants of the closure: a sub-handler's Go error wrapped into an
\* error result, and the empty-string test left out.
makeMetaHandlerWrapping(metaToolName, handlers, request, order, outcome) ==
  LET args == request.args IN
  IF "action" \notin DOMAIN args
  THEN [result |-> NewToolResultError(MsgMissing), err |-> NilError,
        invoked |-> <<>>]
  ELSE IF args["action"].kind # "string" \/ args["action"].s = ""
  THEN [result |-> NewToolResultError(MsgInvalid), err |-> NilError,
        invoked |-> <<>>]
  ELSE IF args["action"].s \notin DOMAIN handlers
  THEN [result |-> NewToolResultError(
                     MsgUnknown(args["action"].s, metaToolName, order)),
        err |-> NilError, invoked |-> <<>>]
  ELSE [result |-> IF outcome.err # NilError
                   THEN NewToolResultError(<<"action failed: ">> \o outcome.err)
                   ELSE outcome.result,
        err |-> NilError,
        invoked |-> <<[handler |-> handlers[args["action"].s],
                       ctx |-> request.ctx, args |-> request.args]>>]

makeMetaHandlerNoEmptyCheck(metaToolName, handlers, request, order, outcome) ==
  LET args == request.args IN
  IF "action" \notin DOMAIN args
  THEN [result |-> NewToolResultError(MsgMissing), err |-> NilError,
        invoked |-> <<>>]
  ELSE IF args["action"].kind # "string"
  THEN [result |-> NewToolResultError(MsgInvalid), err |-> NilError,
        invoked |-> <<>>]
  ELSE IF args["action"].s \notin DOMAIN handlers
  THEN [result |-> NewToolResultError(
                     MsgUnknown(args["action"].s, metaToolName, order)),
        err |-> NilError, invoked |-> <<>>]
  ELSE [result |-> outcome.result, err |-> outcome.err,
        invoked |-> <<[handler |-> handlers[args["action"].s],
                       ctx |-> request.ctx, args |-> request.args]>>]

\* Further faulty variants: a failed sub-handler call made a second time, the
\* discriminator removed from the forwarded arguments, and a validation
\* failure returned as a Go error.
makeMetaHandlerRetry(metaToolName, handlers, request, order, outcome) ==
  LET args == request.args
      call == [handler |-> handlers[args["action"].s],
               ctx |-> request.ctx, args |-> request.args]
  IN
  IF "action" \notin DOMAIN args
  THEN [result |-> NewToolResultError(MsgMissing), err |-> NilError,
        invoked |-> <<>>]
  ELSE IF args["action"].kind # "string" \/ args["action"].s = ""
  THEN [result |-> NewToolResultError(MsgInvalid), err |-> NilError,
        invoked |-> <<>>]
  ELSE IF args["action"].s \notin DOMAIN handlers
  THEN [result |-> NewToolResultError(
                     MsgUnknown(args["action"].s, metaToolName, order)),
        err |-> NilError, invoked |-> <<>>]
  ELSE [result |-> outcome.result, err |-> outcome.err,
        invoked |-> IF outcome.err # NilError \/ outcome.result.isError
                    THEN <<call, call>> ELSE <<call>>]

makeMetaHandlerStripAction(metaToolName, handlers, request, order, outcome) ==
  LET args == request.args IN
  IF "action" \notin DOMAIN args
  THEN [result |-> NewToolResultError(MsgMissing), err |-> NilError,
        invoked |-> <<>>]
  ELSE IF args["action"].kind # "string" \/ args["action"].s = ""
  THEN [result |-> NewToolResultError(MsgInvalid), err |-> NilError,
        invoked |-> <<>>]
  ELSE IF args["action"].s \notin DOMAIN handlers
  THEN [result |-> NewToolResultError(
                     MsgUnknown(args["action"].s, metaToolName, order)),
        err |-> NilError, invoked |-> <<>>]
  ELSE [result |-> outcome.result, err |-> outcome.err,
        invoked |-> <<[handler |-> handlers[args["action"].s],
                       ctx |-> request.ctx,
                       args |-> [k \in (DOMAIN args) \ {"action"} |-> args[k]]]>>]

makeMetaHandlerGoErrors(metaToolName, handlers, request, order, outcome) ==
  LET args == request.args IN
  IF "action" \notin DOMAIN args
  THEN [result |-> NilResult, err |-> MsgMissing, invoked |-> <<>>]
  ELSE IF args["action"].kind # "string" \/ args["action"].s = ""
  THEN [result |-> NewToolResultError(MsgInvalid), err |-> NilError,
        invoked |-> <<>>]
  ELSE IF args["action"].s \notin DOMAIN handlers
  THEN [result |-> NewToolResultError(
                     MsgUnknown(args["action"].s, metaToolName, order)),
        err |-> NilError, invoked |-> <<>>]
  ELSE [result |-> outcome.result, err |-> outcome.err,
        invoked |-> <<[handler |-> handlers[args["action"].s],
                       ctx |-> request.ctx, args |-> request.args]>>]

\* Faulty variant: the unknown-action message without the list of names.
makeMetaHandlerNoList(metaToolName, handlers, request, order, outcome) ==
  LET args == request.args IN
  IF "action" \notin DOMAIN args
  THEN [result |-> NewToolResultError(MsgMissing), err |-> NilError,
        invoked |-> <<>>]
  ELSE IF args["action"].kind # "string" \/ args["action"].s = ""
  THEN [result |-> NewToolResultError(MsgInvalid), err |-> NilError,
        invoked |-> <<>>]
  ELSE IF args["action"].s \notin DOMAIN handlers
  THEN [result |-> NewToolResultError(
                     MsgUnknown(args["action"].s, metaToolName, <<>>)),
        err |-> NilError, invoked |-> <<>>]
  ELSE [result |-> outcome.result, err |-> outcome.err,
        invoked |-> <<[handler |-> handlers[args["action"].s],
                       ctx |-> request.ctx, args |-> request.args]>>]

\* The closure of lines 81-105.  order is the order in which `range handlers`
\* yields the keys; outcome is what the selected sub-handler returns.
makeMetaHandler(metaToolName, handlers, request, order, outcome) ==
  LET args == request.args IN
  IF "action" \notin DOMAIN args
  THEN [result |-> NewToolResultError(MsgMissing), err |-> NilError,
        invoked |-> <<>>]
  ELSE IF args["action"].kind # "string" \/ args["action"].s = ""
  THEN [result |-> NewToolResultError(MsgInvalid), err |-> NilError,
        invoked |-> <<>>]
  ELSE IF args["action"].s \notin DOMAIN handlers
  THEN [result |-> NewToolResultError(
                     MsgUnknown(args["action"].s, metaToolName, order)),
        err |-> NilError, invoked |-> <<>>]
  ELSE [result |-> outcome.result, err |-> outcome.err,
        invoked |-> <<[handler |-> handlers[args["action"].s],
                       ctx |-> request.ctx, args |-> request.args]>>]

\* What the closure leaves of the registered tools: lines 81-105 read
\* handlers and metaToolName and assign only to their own locals.
\* Faulty variant: a dispatched action deleted from the entry's map.
toolsAfterCallConsuming(ts, name, request) ==
  LET args == request.args IN
  IF /\ "action" \in DOMAIN args
     /\ args["action"].kind = "string"
     /\ args["action"].s \in DOMAIN ts[name].handlers
  THEN [ts EXCEPT ![name].handlers =
          [k \in DOMAIN ts[name].handlers \ {args["action"].s} |->
             ts[name].handlers[k]]]
  ELSE ts

toolsAfterCall(ts, name, request) == ts

\* Where an invocation of the closure keeps `handler` (line 92, declared by :=
\* inside the function literal): a local of that invocation.
\* Faulty variant: one variable captured by the closure.
HandlerSlotShared(i) == 1

HandlerSlot(i) == i

\* Orders in which Go may iterate a map with these keys: every permutation of
\* a small map, the rotations of one order and their reversals of a larger one.
Perms(S) ==
  {f \in [1..Cardinality(S) -> S] : \A x \in S : \E i \in DOMAIN f : f[i] = x}

RECURSIVE SetToSeq(_)
SetToSeq(S) ==
  IF S = {} THEN <<>>
  ELSE LET x == CHOOSE y \in S : TRUE IN <<x>> \o SetToSeq(S \ {x})

Rotate(s, k) == [i \in 1..Len(s) |-> s[((i + k - 1) % Len(s)) + 1]]
Reverse(s) == [i \in 1..Len(s) |-> s[Len(s) + 1 - i]]

KeyOrders(handlers) ==
  LET keys == DOMAIN handlers IN
  IF Cardinality(keys) <= MaxPermLen THEN Perms(keys)
  ELSE LET base == SetToSeq(keys)
           rots == {Rotate(base, k) : k \in 0..(Len(base) - 1)}
       IN rots \cup {Reverse(r) : r \in rots}

----------------------------------------------------------------------------
\* Inputs

\* Action names of a catalog, and the values a caller may send as "action".
CatalogActionNames(catalog) ==
  UNION {{catalog[g].actions[i].name : i \in 1..Len(catalog[g].actions)} :
           g \in 1..Len(catalog)}

ActionValues(catalog) ==
  {StringVal(n) : n \in CatalogActionNames(catalog) \cup {"nonexistent", ""}}
    \cup {NumberVal("42"), NullVal}

ArgBags(catalog) ==
  LET extras == {EmptyMap, "id" :> NumberVal("1")} IN
  extras \cup {("action" :> a) @@ e : a \in ActionValues(catalog), e \in extras}

Requests(catalog) == {[ctx |-> "ctx", args |-> b] : b \in ArgBags(catalog)}

\* Definitions a test may hand to registerOneMetaTool.
TestActionNames == {"list_users", "create_user"}

TestHandler(n, ro) ==
  IF n = "list_users"
  THEN (IF ro THEN "testListUsers" ELSE "testListUsersW")
  ELSE (IF ro THEN "testCreateUserR" ELSE "testCreateUser")

TestActions ==
  {metaAction(n, TestHandler(n, ro), ro) : n \in TestActionNames, ro \in BOOLEAN}

TestGroupNames == {"manage_users", "manage_teams"}

TestAnnotations ==
  {ToolAnnotation("Test", FALSE, TRUE, FALSE, FALSE),
   ToolAnnotation("Test", FALSE, TRUE, FALSE, TRUE),
   ToolAnnotation("Test", FALSE, FALSE, TRUE, FALSE),
   ToolAnnotation("Test", TRUE, TRUE, TRUE, TRUE)}

TestDefs ==
  {metaToolDef(n, "test group", acts, ann) :
     n \in TestGroupNames, acts \in SeqsUpTo(TestActions, MaxActions),
     ann \in TestAnnotations}

\* One-action groups with the usual annotation, for catalogs of several groups.
StubDefs ==
  {d \in TestDefs :
     /\ Len(d.actions) = 1
     /\ d.annotation = ToolAnnotation("Test", FALSE, TRUE, FALSE, FALSE)}

TestCatalogs ==
  {<<>>} \cup {<<d>> : d \in TestDefs}
         \cup UNION {[1..k -> StubDefs] : k \in 2..MaxGroups}

\* Catalogs for sequences of calls and for concurrent calls: manage_users
\* with a read and a write action, and a second group of one action.
CallCatalogs ==
  {<<metaToolDef("manage_users", "test group",
                 <<metaAction("list_users", "testListUsers", TRUE),
                   metaAction("create_user", "testCreateUser", FALSE)>>,
                 ToolAnnotation("Test", FALSE, TRUE, FALSE, FALSE)),
     metaToolDef("manage_teams", "test group", <<a>>,
                 ToolAnnotation("Test", FALSE, TRUE, FALSE, FALSE))>> :
     a \in TestActions}

\* A goroutine of the transport that runs no call.
IdleCall ==
  [pc |-> "idle", tool |-> "", request |-> [ctx |-> "", args |-> EmptyMap],
   action |-> "", handler |-> "", order |-> <<>>, outcome |-> NoOutcome,
   result |-> NilResult, err |-> NilError, invoked |-> <<>>]

----------------------------------------------------------------------------
\* The state machine

Init ==
  /\ readOnly \in BOOLEAN
  /\ defs = <<>>
  /\ idx = 0
  /\ pc = "new"
  /\ tools = EmptyMap
  /\ bound = <<>>
  /\ last = <<>>
  /\ inflight = [i \in 1..MaxCalls |-> IdleCall]
  /\ reg = EnterReg
  /\ urlCheck = <<>>

\* RegisterMetaTools, line 18: defs := metaToolDefinitions()
RegisterMetaTools ==
  /\ pc = "new"
  /\ defs' = metaToolDefinitions
  /\ idx' = 1
  /\ pc' = "registering"
  /\ UNCHANGED <<readOnly, tools, bound, last, inflight, reg, urlCheck>>

\* The same loop over a catalog written for a test.
RegisterTestDefs ==
  /\ pc = "new"
  /\ defs' \in TestCatalogs
  /\ idx' = 1
  /\ pc' = "registering"
  /\ UNCHANGED <<readOnly, tools, bound, last, inflight, reg, urlCheck>>

\* RegisterMetaTools, lines 19-21: one iteration, s.registerOneMetaTool(def)
RegisterOne ==
  /\ pc = "registering"
  /\ idx <= Len(defs)
  /\ tools' = registerOneMetaTool(tools, defs[idx], readOnly)
  /\ bound' = bound \o registerOneFactoryCalls(defs[idx], readOnly)
  /\ idx' = idx + 1
  /\ UNCHANGED <<readOnly, defs, pc, last, inflight, reg, urlCheck>>

\* RegisterMetaTools returns; the transport starts serving calls.
RegisterDone ==
  /\ pc = "registering"
  /\ idx > Len(defs)
  /\ pc' = "serving"
  /\ UNCHANGED <<readOnly, defs, idx, tools, bound, last, inflight, reg, urlCheck>>

\* A tools/call of a registered meta-tool runs its routing closure.  A call
\* reads tools and writes nothing but its own record, so one call from each
\* serving state shows what any call of any sequence does.
CallTool ==
  /\ pc = "serving"
  /\ last = <<>>
  /\ \E name \in DOMAIN tools, request \in Requests(defs) :
       LET st == tools[name] IN
       \E order \in KeyOrders(st.handlers) :
         \E outcome \in
              (IF /\ "action" \in DOMAIN request.args
                  /\ request.args["action"].kind = "string"
                  /\ request.args["action"].s \in DOMAIN st.handlers
               THEN HandlerOutcomes(st.handlers[request.args["action"].s])
               ELSE {NoOutcome}) :
           LET r == makeMetaHandler(st.metaToolName, st.handlers, request,
                                    order, outcome)
           IN last' = <<[tool |-> name, request |-> request,
                         outcome |-> outcome, result |-> r.result,
                         err |-> r.err, invoked |-> r.invoked]>>
  /\ UNCHANGED <<readOnly, defs, idx, pc, tools, bound, inflight, reg, urlCheck>>

Next == RegisterMetaTools \/ RegisterOne \/ RegisterDone \/ CallTool

Spec == Init /\ [][Next]_vars

\* The server as the tests drive it: the production catalog or a test catalog.
NextTest ==
  RegisterMetaTools \/ RegisterTestDefs \/ RegisterOne \/ RegisterDone \/ CallTool

SpecTest == Init /\ [][NextTest]_vars

\* Calls one after another.  last keeps the first call and the latest one;
\* between records whether a call other than the first came between them.
RegisterCallDefs ==
  /\ pc = "new"
  /\ defs' \in CallCatalogs
  /\ idx' = 1
  /\ pc' = "registering"
  /\ UNCHANGED <<readOnly, tools, bound, last, inflight, reg, urlCheck>>

SameCall(c, name, request) == c.tool = name /\ c.request = request

CallNext ==
  /\ pc = "serving"
  /\ \E name \in DOMAIN tools, request \in Requests(defs) :
       LET st == tools[name] IN
       \E order \in KeyOrders(st.handlers) :
         \E outcome \in
              (IF /\ "action" \in DOMAIN request.args
                  /\ request.args["action"].kind = "string"
                  /\ request.args["action"].s \in DOMAIN st.handlers
               THEN HandlerOutcomes(st.handlers[request.args["action"].s])
               ELSE {NoOutcome}) :
           LET r == makeMetaHandler(st.metaToolName, st.handlers, request,
                                    order, outcome)
               c == [tool |-> name, request |-> request,
                     outcome |-> outcome, result |-> r.result,
                     err |-> r.err, invoked |-> r.invoked]
           IN /\ last' =
                   IF last = <<>>
                   THEN <<c @@ [between |-> FALSE]>>
                   ELSE <<last[1],
                          c @@ [between |->
                                  \/ ~SameCall(last[1], name, request)
                                  \/ (Len(last) = 2 /\ last[2].between)]>>
              /\ tools' = toolsAfterCall(tools, name, request)
  /\ UNCHANGED <<readOnly, defs, idx, pc, bound, inflight, reg, urlCheck>>

NextCalls == RegisterCallDefs \/ RegisterOne \/ RegisterDone \/ CallNext

SpecCalls == Init /\ [][NextCalls]_vars

\* Calls at the same time: each goroutine runs the closure statement by
\* statement, and the steps of different goroutines interleave.
ConcRequests(catalog) == {r \in Requests(catalog) : "id" \notin DOMAIN r.args}

Done(c, result, err, invoked) ==
  [c EXCEPT !.pc = "done", !.result = result, !.err = err, !.invoked = invoked]

\* The transport hands a request to the closure of the named tool.
StartCall(i) ==
  /\ pc = "serving"
  /\ inflight[i].pc = "idle"
  /\ \E name \in DOMAIN tools, request \in ConcRequests(defs) :
       inflight' = [inflight EXCEPT ![i] =
                      [@ EXCEPT !.pc = "line82", !.tool = name,
                                !.request = request]]
  /\ UNCHANGED <<readOnly, defs, idx, pc, tools, bound, last, reg, urlCheck>>

\* Lines 82-90: the action argument is read and checked.
ReadAction(i) ==
  /\ inflight[i].pc = "line82"
  /\ LET c == inflight[i]
         args == c.request.args
     IN inflight' = [inflight EXCEPT ![i] =
          IF "action" \notin DOMAIN args
          THEN Done(c, NewToolResultError(MsgMissing), NilError, <<>>)
          ELSE IF args["action"].kind # "string" \/ args["action"].s = ""
          THEN Done(c, NewToolResultError(MsgInvalid), NilError, <<>>)
          ELSE [c EXCEPT !.pc = "line92", !.action = args["action"].s]]
  /\ UNCHANGED <<readOnly, defs, idx, pc, tools, bound, last, reg, urlCheck>>

\* Lines 92-102: the handler is looked up in the entry's map.
Lookup(i) ==
  /\ inflight[i].pc = "line92"
  /\ LET c == inflight[i]
         st == tools[c.tool]
     IN IF c.action \notin DOMAIN st.handlers
        THEN \E order \in KeyOrders(st.handlers) :
               inflight' = [inflight EXCEPT ![i] =
                  Done([c EXCEPT !.order = order],
                       NewToolResultError(
                         MsgUnknown(c.action, st.metaToolName, order)),
                       NilError, <<>>)]
        ELSE inflight' = [inflight EXCEPT
                            ![i].pc = "line104",
                            ![HandlerSlot(i)].handler = st.handlers[c.action]]
  /\ UNCHANGED <<readOnly, defs, idx, pc, tools, bound, last, reg, urlCheck>>

\* Line 104: return handler(ctx, request)
Invoke(i) ==
  /\ inflight[i].pc = "line104"
  /\ LET c == inflight[i]
         h == inflight[HandlerSlot(i)].handler
     IN \E outcome \in HandlerOutcomes(h) :
          inflight' = [inflight EXCEPT ![i] =
             Done([c EXCEPT !.outcome = outcome], outcome.result, outcome.err,
                  <<[handler |-> h, ctx |-> c.request.ctx,
                     args |-> c.request.args]>>)]
  /\ UNCHANGED <<readOnly, defs, idx, pc, tools, bound, last, reg, urlCheck>>

NextConc ==
  \/ RegisterCallDefs \/ RegisterOne \/ RegisterDone
  \/ \E i \in 1..MaxCalls : StartCall(i) \/ ReadAction(i) \/ Lookup(i) \/ Invoke(i)

SpecConc == Init /\ [][NextConc]_vars

\* Registration statement by statement, with calls that arrive while it runs
\* (the entries AddTool has stored so far can be called).
RegisterStepDefs ==
  /\ pc = "new"
  /\ defs' \in CallCatalogs
  /\ idx' = 1
  /\ pc' = "stepping"
  /\ UNCHANGED <<readOnly, tools, bound, last, inflight, reg, urlCheck>>

\* One statement of registerOneMetaTool(defs[idx]), or its return to the loop
\* of RegisterMetaTools.
RegisterStep ==
  /\ pc = "stepping"
  /\ idx <= Len(defs)
  /\ IF reg.line = "return"
     THEN /\ idx' = idx + 1
          /\ reg' = EnterReg
          /\ UNCHANGED <<defs, tools, bound>>
     ELSE LET s == regStep(reg, tools, defs[idx], readOnly) IN
          /\ reg' = s.reg
          /\ tools' = s.tools
          /\ bound' = bound \o s.calls
          /\ defs' = [defs EXCEPT ![idx] = s.def]
          /\ idx' = idx
  /\ UNCHANGED <<readOnly, pc, last, inflight, urlCheck>>

RegisterStepsDone ==
  /\ pc = "stepping"
  /\ idx > Len(defs)
  /\ pc' = "serving"
  /\ UNCHANGED <<readOnly, defs, idx, tools, bound, last, inflight, reg, urlCheck>>

CallDuring ==
  /\ pc \in {"stepping", "serving"}
  /\ last = <<>>
  /\ \E name \in DOMAIN tools, request \in ConcRequests(defs) :
       LET st == tools[name] IN
       \E order \in KeyOrders(st.handlers) :
         \E outcome \in
              (IF /\ "action" \in DOMAIN request.args
                  /\ request.args["action"].kind = "string"
                  /\ request.args["action"].s \in DOMAIN st.handlers
               THEN HandlerOutcomes(st.handlers[request.args["action"].s])
               ELSE {NoOutcome}) :
           LET r == makeMetaHandler(st.metaToolName, st.handlers, request,
                                    order, outcome)
           IN last' = <<[tool |-> name, request |-> request,
                         outcome |-> outcome, result |-> r.result,
                         err |-> r.err, invoked |-> r.invoked]>>
  /\ UNCHANGED <<readOnly, defs, idx, pc, tools, bound, inflight, reg, urlCheck>>

NextSteps ==
  RegisterStepDefs \/ RegisterStep \/ RegisterStepsDone \/ CallDuring

SpecSteps == Init /\ [][NextSteps]_vars

\* RegisterMetaTools called once more on the same server: the same catalog,
\* the same mode, the tools of the first pass still registered.
RECURSIVE PassFactoryCalls(_, _)
PassFactoryCalls(catalog, ro) ==
  IF catalog = <<>> THEN <<>>
  ELSE registerOneFactoryCalls(Head(catalog), ro)
         \o PassFactoryCalls(Tail(catalog), ro)

RegisterAgain ==
  /\ pc = "serving"
  /\ Len(bound) <= Len(PassFactoryCalls(defs, readOnly))
  /\ idx' = 1
  /\ pc' = "registering"
  /\ UNCHANGED <<readOnly, defs, tools, bound, last, inflight, reg, urlCheck>>

NextRerun ==
  \/ RegisterMetaTools \/ RegisterTestDefs \/ RegisterOne \/ RegisterDone
  \/ RegisterAgain

SpecRerun == Init /\ [][NextRerun]_vars

\* Calls of manage_users with the two write actions that take a role.
OptArg(k, vals) == {EmptyMap} \cup {k :> v : v \in vals}

UserRequests ==
  {[ctx |-> "ctx", args |-> ("action" :> StringVal(a)) @@ u @@ p @@ r @@ i] :
     a \in {"create_user", "update_user_role"},
     u \in OptArg("username", {StringVal("alice"), NumberVal("7")}),
     p \in OptArg("password", {StringVal("secret")}),
     r \in OptArg("role", {StringVal("admin"), StringVal("root"), NumberVal("1")}),
     i \in OptArg("id", {NumberVal("1"), StringVal("one")})}

CallUserWrite ==
  /\ pc = "serving"
  /\ last = <<>>
  /\ "manage_users" \in DOMAIN tools
  /\ \E request \in UserRequests, backend \in BackendOutcomes :
       LET st == tools["manage_users"]
           known == request.args["action"].s \in DOMAIN st.handlers
           ran == IF known
                  THEN RunUserHandler(st.handlers[request.args["action"].s],
                                      request, backend)
                  ELSE [result |-> NilResult, err |-> NilError, calls |-> <<>>]
           outcome == [result |-> ran.result, err |-> ran.err]
       IN \E order \in KeyOrders(st.handlers) :
            LET r == makeMetaHandler(st.metaToolName, st.handlers, request,
                                     order, outcome)
            IN last' = <<[tool |-> "manage_users", request |-> request,
                          outcome |-> outcome, result |-> r.result,
                          err |-> r.err, invoked |-> r.invoked,
                          backend |-> backend,
                          backendCalls |-> IF r.invoked = <<>> THEN <<>>
                                           ELSE ran.calls]>>
  /\ UNCHANGED <<readOnly, defs, idx, pc, tools, bound, inflight, reg, urlCheck>>

NextUsers == RegisterMetaTools \/ RegisterOne \/ RegisterDone \/ CallUserWrite

SpecUsers == Init /\ [][NextUsers]_vars

\* A handler validates a URL argument.
CallValidateURL ==
  /\ urlCheck = <<>>
  /\ \E rawURL \in RawURLs :
       urlCheck' = <<[rawURL |-> rawURL, err |-> validateURL(rawURL)]>>
  /\ UNCHANGED <<readOnly, defs, idx, pc, tools, bound, last, inflight, reg>>

NextUrl == CallValidateURL

SpecUrl == Init /\ [][NextUrl]_vars

----------------------------------------------------------------------------
\* Vocabulary of the properties

\* The mode filter as the design states it: kept iff !m || a.readOnly.
Permitted(a) == ~readOnly \/ a.readOnly
PermittedActions(def) == SelectSeq(def.actions, Permitted)
PermittedNames(def) ==
  [i \in 1..Len(PermittedActions(def)) |-> PermittedActions(def)[i].name]

\* The group registerOneMetaTool has just returned from.
JustRegistered == pc = "registering" /\ idx > 1
Processed == IF pc = "new" THEN {} ELSE 1..(idx - 1)

Enum(n) == tools[n].tool.properties.action.enum
Hints(n) == tools[n].tool.annotations

Called == last # <<>>
CallArgs == last[1].request.args
HasAction == "action" \in DOMAIN CallArgs
ActionIsString == HasAction /\ CallArgs["action"].kind = "string"
ActionString == CallArgs["action"].s

\* Two action slots of the catalog carry one name: there are fewer distinct
\* names than actions.
RECURSIVE TotalActions(_)
TotalActions(catalog) ==
  IF catalog = <<>> THEN 0
  ELSE Len(Head(catalog).actions) + TotalActions(Tail(catalog))

ActionNameClash(catalog) ==
  Cardinality(CatalogActionNames(catalog)) # TotalActions(catalog)

GroupNameClash(catalog) ==
  Cardinality({catalog[g].name : g \in 1..Len(catalog)}) # Len(catalog)

----------------------------------------------------------------------------
\* Properties

\* C1: when registerOneMetaTool returns from a group G whose permitted action
\* list is not empty, the enum of the entry named after G is exactly the
\* sequence of names of G's actions a with (!readOnly || a.readOnly), in
\* declaration order, and the keys of its dispatch table are that set of names.
C1_EnumIsFilteredActions ==
  JustRegistered =>
    LET G == defs[idx - 1] IN
    PermittedNames(G) # <<>> =>
      /\ G.name \in DOMAIN tools
      /\ Enum(G.name) = PermittedNames(G)
      /\ DOMAIN tools[G.name].handlers = Range(PermittedNames(G))

C1_Witness ==
  /\ JustRegistered
  /\ readOnly
  /\ LET G == defs[idx - 1] IN
       /\ Len(G.actions) >= 2
       /\ G.actions[1].readOnly /\ ~G.actions[2].readOnly
       /\ Enum(G.name) = <<G.actions[1].name>>

\* C2: a group whose permitted action list is empty adds no entry: every
\* registered name is the name of a processed group with a non-empty permitted
\* list, and every call was dispatched to such a name.
C2_EmptyGroupNotRegistered ==
  /\ \A n \in DOMAIN tools :
       \E g \in Processed : defs[g].name = n /\ PermittedNames(defs[g]) # <<>>
  /\ Called => last[1].tool \in DOMAIN tools

C2_Witness ==
  /\ pc = "serving"
  /\ readOnly
  /\ \E g \in 1..Len(defs) :
       /\ defs[g].actions # <<>>
       /\ \A i \in 1..Len(defs[g].actions) : ~defs[g].actions[i].readOnly
       /\ defs[g].name \notin DOMAIN tools

\* C3: if every action left after filtering has readOnly = true, the entry has
\* ReadOnlyHint = true and DestructiveHint = false, whatever the group declares.
C3_AllReadOnlyForcesHints ==
  JustRegistered =>
    LET G == defs[idx - 1] IN
    (/\ PermittedNames(G) # <<>>
     /\ \A i \in 1..Len(PermittedActions(G)) : PermittedActions(G)[i].readOnly)
    => /\ Hints(G.name).ReadOnlyHint = TRUE
       /\ Hints(G.name).DestructiveHint = FALSE

C3_Witness ==
  /\ JustRegistered
  /\ ~readOnly
  /\ LET G == defs[idx - 1] IN
       /\ G.actions # <<>>
       /\ \A i \in 1..Len(G.actions) : G.actions[i].readOnly
       /\ G.annotation.ReadOnlyHint = FALSE
       /\ G.annotation.DestructiveHint = TRUE
       /\ Hints(G.name).ReadOnlyHint = TRUE
       /\ Hints(G.name).DestructiveHint = FALSE

\* C4: if some action left after filtering has readOnly = false, the entry's
\* annotation is the group's declared annotation, unchanged.
C4_WriteActionKeepsDeclaredHints ==
  JustRegistered =>
    LET G == defs[idx - 1] IN
    (\E i \in 1..Len(PermittedActions(G)) : ~PermittedActions(G)[i].readOnly)
    => Hints(G.name) = G.annotation

C4_Witness ==
  /\ JustRegistered
  /\ ~readOnly
  /\ LET G == defs[idx - 1] IN
       /\ \E i \in 1..Len(G.actions) : G.actions[i].readOnly
       /\ \E i \in 1..Len(G.actions) : ~G.actions[i].readOnly
       /\ G.annotation.ReadOnlyHint = FALSE
       /\ G.annotation.OpenWorldHint = TRUE
       /\ Hints(G.name) = G.annotation

\* C5: after RegisterMetaTools in read-only mode every registered meta-tool has
\* ReadOnlyHint = true and DestructiveHint = false, and neither its enum nor
\* its dispatch table holds the name or the handler of an action with
\* readOnly = false.
C5_ReadOnlyModeExposesOnlyReads ==
  (pc = "serving" /\ readOnly) =>
    \A n \in DOMAIN tools :
      /\ Hints(n).ReadOnlyHint = TRUE
      /\ Hints(n).DestructiveHint = FALSE
      /\ \A g \in 1..Len(defs) : \A i \in 1..Len(defs[g].actions) :
           ~defs[g].actions[i].readOnly =>
             /\ defs[g].actions[i].name \notin Range(Enum(n))
             /\ defs[g].actions[i].name \notin DOMAIN tools[n].handlers
             /\ defs[g].actions[i].handler \notin
                  {tools[n].handlers[k] : k \in DOMAIN tools[n].handlers}

C5_Witness ==
  /\ pc = "serving"
  /\ readOnly
  /\ "manage_users" \in DOMAIN tools
  /\ Enum("manage_users") = <<"list_users", "get_user">>
  /\ Hints("manage_users").ReadOnlyHint = TRUE
  /\ defs[4].annotation.ReadOnlyHint = FALSE

\* C6: in the catalog returned by metaToolDefinitions no two actions share a
\* name, across all groups, and no two groups share a name.
C6_CatalogNamesUnique ==
  pc # "new" => ~ActionNameClash(defs) /\ ~GroupNameClash(defs)

C6_Witness ==
  /\ pc = "serving"
  /\ Len(defs) = 15
  /\ Cardinality(CatalogActionNames(defs)) = 98

\* C7: a catalog with a duplicate action name or a duplicate group name is
\* rejected: registration never completes with entries registered from it.
C7_DuplicateNamesAbortRegistration ==
  (pc = "serving" /\ DOMAIN tools # {}) =>
    ~ActionNameClash(defs) /\ ~GroupNameClash(defs)

\* C8: a call whose action is a string X of the entry's enum invokes the
\* handler bound to X exactly once, no other handler, and returns what that
\* handler returned.
C8_KnownActionDispatched ==
  (Called /\ ActionIsString /\ ActionString \in Range(Enum(last[1].tool))) =>
    LET c == last[1] IN
    /\ Len(c.invoked) = 1
    /\ c.invoked[1].handler = tools[c.tool].handlers[ActionString]
    /\ \E g \in 1..Len(defs) : \E i \in 1..Len(defs[g].actions) :
         /\ defs[g].name = c.tool
         /\ Permitted(defs[g].actions[i])
         /\ defs[g].actions[i].name = ActionString
         /\ defs[g].actions[i].handler = c.invoked[1].handler
    /\ c.outcome \in HandlerOutcomes(c.invoked[1].handler)
    /\ c.result = c.outcome.result
    /\ c.err = c.outcome.err

C8_Witness ==
  /\ Called
  /\ last[1].tool = "manage_users"
  /\ ActionIsString /\ ActionString = "list_users"
  /\ Len(last[1].invoked) = 1
  /\ last[1].invoked[1].handler = "testListUsers"
  /\ last[1].err # NilError
  /\ last[1].result.isNil

\* C9: a call whose action is missing, not a string, the empty string, or the
\* name of a write action filtered out of the entry in read-only mode invokes
\* no handler and returns a result with the error flag set.
FilteredOut(n, x) ==
  /\ readOnly
  /\ x \notin Range(Enum(n))
  /\ \E g \in 1..Len(defs) : \E i \in 1..Len(defs[g].actions) :
       /\ defs[g].name = n
       /\ defs[g].actions[i].name = x
       /\ ~defs[g].actions[i].readOnly

C9_BadActionInvokesNothing ==
  (Called /\ (\/ ~HasAction
              \/ ~ActionIsString
              \/ ActionString = ""
              \/ FilteredOut(last[1].tool, ActionString))) =>
    /\ last[1].invoked = <<>>
    /\ ~last[1].result.isNil
    /\ last[1].result.isError
    /\ last[1].err = NilError

C9_Witness ==
  /\ Called
  /\ readOnly
  /\ last[1].tool = "manage_users"
  /\ ActionIsString /\ ActionString = "create_user"
  /\ FilteredOut("manage_users", "create_user")
  /\ last[1].invoked = <<>>
  /\ last[1].result.isError

\* C10: a failing call gets one error kind, decided in this order: no action
\* key, "missing required parameter: action"; a value that is not a string or
\* is empty (null included), "parameter 'action' must be a non-empty string";
\* a non-empty string absent from the dispatch table,
\* "unknown action '<X>' for tool '<name>'".
C10_ErrorKindByOrder ==
  Called =>
    LET c == last[1] IN
    /\ ~HasAction => c.result = NewToolResultError(MsgMissing)
    /\ (HasAction /\ (~ActionIsString \/ ActionString = ""))
         => c.result = NewToolResultError(MsgInvalid)
    /\ (ActionIsString /\ ActionString # ""
          /\ ActionString \notin DOMAIN tools[c.tool].handlers)
         => /\ c.result.isError
            /\ Len(c.result.content) >= 5
            /\ SubSeq(c.result.content, 1, 4) =
                 <<"unknown action '", ActionString, "' for tool '", c.tool>>
            /\ c.result.content # MsgMissing
            /\ c.result.content # MsgInvalid

C10_Witness ==
  /\ Called
  /\ HasAction /\ CallArgs["action"] = NullVal
  /\ "id" \in DOMAIN CallArgs
  /\ last[1].result = NewToolResultError(MsgInvalid)

\* C11: the action names listed in an UnknownAction message are exactly the
\* entry's mode-filtered action names: every name of the enum is listed, no
\* other name is, and in read-only mode no filtered-out write action is.
UnknownActionCall ==
  /\ Called
  /\ ActionIsString /\ ActionString # ""
  /\ ActionString \notin DOMAIN tools[last[1].tool].handlers

\* The names after "Available actions: ", the separators left out.
ListedNames(content) ==
  {content[i] : i \in {j \in 6..Len(content) : (j - 6) % 2 = 0}}

C11_UnknownActionListsFilteredNames ==
  UnknownActionCall =>
    LET c == last[1] IN
    /\ ListedNames(c.result.content) = Range(Enum(c.tool))
    /\ \A x \in ListedNames(c.result.content) : ~FilteredOut(c.tool, x)

C11_Witness ==
  /\ UnknownActionCall
  /\ readOnly
  /\ Len(defs) = 15
  /\ last[1].tool = "manage_users"
  /\ ActionString = "create_user"
  /\ ListedNames(last[1].result.content) = {"list_users", "get_user"}

\* C12: when the selected handler fails (error result or non-nil Go error) the
\* router returns exactly what the handler returned, and no call invokes more
\* than one handler.
HandlerFailed(c) == c.outcome.err # NilError \/ c.outcome.result.isError

C12_HandlerFailureForwardedOnce ==
  Called =>
    LET c == last[1] IN
    /\ Len(c.invoked) <= 1
    /\ (c.invoked # <<>> /\ HandlerFailed(c)) =>
         /\ c.result = c.outcome.result
         /\ c.err = c.outcome.err

C12_Witness ==
  /\ Called
  /\ Len(last[1].invoked) = 1
  /\ last[1].outcome.err # NilError
  /\ last[1].err = last[1].outcome.err
  /\ last[1].result = NilResult

\* C13: on a successful lookup the handler receives the context and the
\* request the router received: the action key and every other key with their
\* original values, none added or removed.
C13_RequestForwardedUnchanged ==
  (Called /\ last[1].invoked # <<>>) =>
    LET c == last[1] IN
    \A i \in 1..Len(c.invoked) :
      /\ c.invoked[i].ctx = c.request.ctx
      /\ c.invoked[i].args = c.request.args
      /\ DOMAIN c.invoked[i].args = DOMAIN c.request.args
      /\ "action" \in DOMAIN c.invoked[i].args
      /\ c.invoked[i].args["action"] = c.request.args["action"]

C13_Witness ==
  /\ Called
  /\ Len(last[1].invoked) = 1
  /\ DOMAIN last[1].invoked[1].args = {"action", "id"}
  /\ last[1].invoked[1].args["id"] = NumberVal("1")
  /\ last[1].invoked[1].ctx = "ctx"

C15_FifteenEntriesInBothModes ==
  pc = "serving" =>
    /\ Cardinality(DOMAIN tools) = 15
    /\ DOMAIN tools = {defs[g].name : g \in 1..Len(defs)}
    /\ \A n \in DOMAIN tools :
         tools[n].tool.name = n /\ tools[n].metaToolName = n
    /\ \A g \in 1..Len(defs) :
         \E i \in 1..Len(defs[g].actions) : defs[g].actions[i].readOnly

C15_Witness ==
  /\ pc = "serving"
  /\ readOnly
  /\ Cardinality(DOMAIN tools) = 15
  /\ "manage_docker" \in DOMAIN tools
  /\ Enum("manage_docker") = <<"get_docker_dashboard">>

\* C16: with read-only off each of the 98 actions of the catalog is in the
\* enum of exactly one registered entry, its group's, whose dispatch table
\* binds it to the handler the catalog binds; a call of that entry with that
\* action invokes that handler.
CatalogHandler(n, x) ==
  LET g == CHOOSE h \in 1..Len(defs) : defs[h].name = n
      i == CHOOSE k \in 1..Len(defs[g].actions) : defs[g].actions[k].name = x
  IN defs[g].actions[i].handler

C16_EveryActionReachable ==
  /\ (pc = "serving" /\ ~readOnly /\ ~Called) =>
       /\ TotalActions(defs) = 98
       /\ \A g \in 1..Len(defs) : \A i \in 1..Len(defs[g].actions) :
            LET a == defs[g].actions[i] IN
            /\ {n \in DOMAIN tools : a.name \in Range(Enum(n))} = {defs[g].name}
            /\ a.name \in DOMAIN tools[defs[g].name].handlers
            /\ tools[defs[g].name].handlers[a.name] = a.handler
  /\ (Called /\ ~readOnly /\ ActionIsString
        /\ ActionString \in CatalogActionNames(defs)
        /\ ActionString \in Range(Enum(last[1].tool))) =>
       /\ Len(last[1].invoked) = 1
       /\ last[1].invoked[1].handler = CatalogHandler(last[1].tool, ActionString)

C16_Witness ==
  /\ Called
  /\ ~readOnly
  /\ last[1].tool = "manage_system"
  /\ ActionIsString /\ ActionString = "logout"
  /\ Len(last[1].invoked) = 1
  /\ last[1].invoked[1].handler = "HandleLogout"

\* C17: every registered entry declares exactly one parameter, action, which
\* is required and a string whose enum is the filtered action names of its
\* group; no parameter of a sub-operation is declared.
C17_OnlyActionParameter ==
  \A n \in DOMAIN tools :
    LET tl == tools[n].tool IN
    /\ DOMAIN tl.properties = {"action"}
    /\ tl.required = <<"action">>
    /\ tl.properties["action"].type = "string"
    /\ Range(tl.properties["action"].enum) = DOMAIN tools[n].handlers
    /\ \E g \in Processed :
         /\ defs[g].name = n
         /\ tl.properties["action"].enum = PermittedNames(defs[g])

C17_Witness ==
  /\ pc = "serving"
  /\ readOnly
  /\ Len(defs) = 15
  /\ DOMAIN tools["manage_webhooks"].tool.properties = {"action"}
  /\ tools["manage_webhooks"].tool.properties["action"].enum = <<"list_webhooks">>

\* C18: the read-only classification of manage_users agrees with
\* AddUserFeatures: the handlers manage_users dispatches to are the handlers
\* AddUserFeatures registers under the same flag, the hidden ones are those it
\* registers only when readOnly is false, and with read-only off both expose
\* all five.
MetaUserHandlers ==
  {tools["manage_users"].handlers[k] : k \in DOMAIN tools["manage_users"].handlers}

C18_UsersAgreeWithGranular ==
  pc = "serving" =>
    /\ "manage_users" \in DOMAIN tools
    /\ MetaUserHandlers = Range(AddUserFeatures(readOnly))
    /\ {defs[4].actions[i].handler : i \in 1..Len(defs[4].actions)}
         \ MetaUserHandlers
         = Range(AddUserFeatures(FALSE)) \ Range(AddUserFeatures(readOnly))
    /\ ~readOnly => Cardinality(MetaUserHandlers) = 5

C18_Witness ==
  /\ pc = "serving"
  /\ readOnly
  /\ defs[4].name = "manage_users"
  /\ Enum("manage_users") = <<"list_users", "get_user">>
  /\ MetaUserHandlers = {"HandleGetUsers", "HandleGetUser"}
  /\ Range(AddUserFeatures(FALSE)) \ Range(AddUserFeatures(readOnly))
       = {"HandleCreateUser", "HandleDeleteUser", "HandleUpdateUserRole"}

\* C19: after registration no call, whatever it does, changes an entry's
\* dispatch table, enum, description or hints, and a call made again after
\* other calls selects the same handler or gives the same error kind as it
\* did the first time.
Selection(c) ==
  IF c.invoked # <<>> THEN <<"handler", c.invoked[1].handler>>
  ELSE IF c.result.isError /\ c.result.content = MsgMissing THEN <<"missing">>
  ELSE IF c.result.isError /\ c.result.content = MsgInvalid THEN <<"invalid">>
  ELSE IF c.result.isError /\ Len(c.result.content) >= 5
          /\ c.result.content[1] = "unknown action '"
  THEN <<"unknown">>
  ELSE <<"other">>

C19_CallsLeaveEntriesUnchanged ==
  [][pc = "serving" =>
       /\ tools' = tools
       /\ (Len(last') = 2 /\ SameCall(last'[1], last'[2].tool, last'[2].request))
            => Selection(last'[2]) = Selection(last'[1])]_vars

C19_Witness ==
  /\ Len(last) = 2
  /\ last[2].between
  /\ last[1].tool = "manage_users"
  /\ SameCall(last[1], last[2].tool, last[2].request)
  /\ Selection(last[1]) = <<"handler", "testCreateUser">>
  /\ Selection(last[2]) = <<"handler", "testCreateUser">>

\* C20: with calls running at the same time, in every interleaving a call
\* that has returned did what the closure of its own entry does with its own
\* request (the handler invoked, or the error returned), and no call runs
\* before registration has finished.
C20_ConcurrentCallsIndependent ==
  \A i \in 1..MaxCalls :
    LET c == inflight[i] IN
    /\ c.pc # "idle" => (pc = "serving" /\ c.tool \in DOMAIN tools)
    /\ c.pc = "done" =>
         LET r == makeMetaHandler(tools[c.tool].metaToolName,
                                  tools[c.tool].handlers, c.request,
                                  c.order, c.outcome)
         IN /\ c.result = r.result
            /\ c.err = r.err
            /\ c.invoked = r.invoked

C20_Witness ==
  /\ inflight[1].pc = "line104"
  /\ inflight[1].tool = "manage_users"
  /\ inflight[1].action = "create_user"
  /\ inflight[2].pc = "done"
  /\ inflight[2].tool = "manage_teams"
  /\ Len(inflight[2].invoked) = 1
  /\ inflight[2].invoked[1].handler = "testListUsersW"

\* C21: an entry is in the server's tools only once registerOneMetaTool has
\* run AddTool for its group, and it is then complete: its enum and the keys
\* of its dispatch table are the group's permitted names and its hints are the
\* effective ones; a call made while later groups are still being registered
\* with a permitted action of the entry reaches that action's handler.
GroupNamed(n) == CHOOSE g \in 1..Len(defs) : defs[g].name = n

PermittedForces(def) ==
  \A i \in 1..Len(PermittedActions(def)) : PermittedActions(def)[i].readOnly

C21_EntryVisibleOnlyComplete ==
  /\ \A n \in DOMAIN tools :
       LET g == GroupNamed(n)
           G == defs[g]
       IN /\ g < idx \/ (g = idx /\ reg.line = "return")
          /\ PermittedActions(G) # <<>>
          /\ Enum(n) = PermittedNames(G)
          /\ DOMAIN tools[n].handlers = Range(PermittedNames(G))
          /\ Hints(n) = IF PermittedForces(G)
                        THEN [G.annotation EXCEPT !.ReadOnlyHint = TRUE,
                                                  !.DestructiveHint = FALSE]
                        ELSE G.annotation
  /\ (Called /\ ActionIsString
        /\ ActionString \in Range(PermittedNames(defs[GroupNamed(last[1].tool)])))
       => /\ Len(last[1].invoked) = 1
          /\ \E i \in 1..Len(defs[GroupNamed(last[1].tool)].actions) :
               LET a == defs[GroupNamed(last[1].tool)].actions[i] IN
               a.name = ActionString /\ a.handler = last[1].invoked[1].handler

C21_Witness ==
  /\ pc = "stepping"
  /\ idx = 2
  /\ reg.line = "build"
  /\ Called
  /\ last[1].tool = "manage_users"
  /\ Len(last[1].invoked) = 1
  /\ last[1].invoked[1].handler = "testCreateUser"

\* C28: registration leaves the catalog definition it reads unchanged: no
\* statement of registerOneMetaTool, the forcing of the read-only hints
\* included, changes a group's declared annotation or its action list.
C28_RegistrationLeavesCatalogUnchanged ==
  [][pc # "new" => defs' = defs]_vars

C28_Witness ==
  /\ pc = "stepping"
  /\ readOnly
  /\ "manage_users" \in DOMAIN tools
  /\ Hints("manage_users").ReadOnlyHint
  /\ ~Hints("manage_users").DestructiveHint
  /\ defs[1].name = "manage_users"
  /\ ~defs[1].annotation.ReadOnlyHint
  /\ defs[1].annotation.DestructiveHint
  /\ Len(defs[1].actions) = 2

\* C22: the handler factories called during registration are those of the
\* actions that pass the filter, once each and in order; in read-only mode no
\* factory of a write action is called and no handler of one is stored in a
\* dispatch table; no handler runs during registration, and a handler a call
\* invokes comes from the called entry's table and from a factory call.
RECURSIVE ExpectedFactoryCalls(_)
ExpectedFactoryCalls(k) ==
  IF k = 0 THEN <<>>
  ELSE ExpectedFactoryCalls(k - 1)
         \o [i \in 1..Len(PermittedActions(defs[k])) |->
               PermittedActions(defs[k])[i].handler]

WriteHandlers ==
  UNION {{defs[g].actions[i].handler :
            i \in {j \in 1..Len(defs[g].actions) : ~defs[g].actions[j].readOnly}} :
           g \in 1..Len(defs)}

StoredHandlers ==
  UNION {{tools[n].handlers[k] : k \in DOMAIN tools[n].handlers} :
           n \in DOMAIN tools}

C22_FactoriesCalledForPermittedOnly ==
  /\ bound = ExpectedFactoryCalls(Cardinality(Processed))
  /\ readOnly => /\ Range(bound) \cap WriteHandlers = {}
                 /\ StoredHandlers \cap WriteHandlers = {}
  /\ pc \in {"new", "registering"} => ~Called
  /\ Called => \A j \in 1..Len(last[1].invoked) :
       /\ last[1].invoked[j].handler \in Range(bound)
       /\ \E k \in DOMAIN tools[last[1].tool].handlers :
            tools[last[1].tool].handlers[k] = last[1].invoked[j].handler

C22_Witness ==
  /\ Called
  /\ readOnly
  /\ Len(defs) = 15
  /\ "HandleCreateUser" \in WriteHandlers
  /\ "HandleCreateUser" \notin Range(bound)
  /\ "HandleGetUsers" \in Range(bound)
  /\ Len(last[1].invoked) = 1
  /\ last[1].invoked[1].handler = "HandleGetUsers"

\* C23: in a catalog whose action names and group names are unique, an action
\* is dispatchable only through its own group's entry: the dispatch tables of
\* distinct entries have disjoint key sets, and a call of an entry with an
\* action name of another group gets the unknown-action error and invokes no
\* handler, in both modes.
RECURSIVE TotalKeys(_)
TotalKeys(names) ==
  IF names = {} THEN 0
  ELSE LET n == CHOOSE x \in names : TRUE IN
       Cardinality(DOMAIN tools[n].handlers) + TotalKeys(names \ {n})

AllKeys == UNION {DOMAIN tools[n].handlers : n \in DOMAIN tools}

NamesOfGroup(n) ==
  UNION {{defs[g].actions[i].name : i \in 1..Len(defs[g].actions)} :
           g \in {h \in 1..Len(defs) : defs[h].name = n}}

C23_ActionOnlyThroughOwnGroup ==
  (~ActionNameClash(defs) /\ ~GroupNameClash(defs)) =>
    /\ ~Called => Cardinality(AllKeys) = TotalKeys(DOMAIN tools)
    /\ (Called /\ ActionIsString
          /\ ActionString \in CatalogActionNames(defs)
          /\ ActionString \notin NamesOfGroup(last[1].tool)) =>
         /\ last[1].invoked = <<>>
         /\ Selection(last[1]) = <<"unknown">>
         /\ last[1].err = NilError

C23_Witness ==
  /\ Called
  /\ ~readOnly
  /\ Len(defs) = 15
  /\ last[1].tool = "manage_teams"
  /\ ActionIsString /\ ActionString = "list_users"
  /\ "list_users" \in DOMAIN tools["manage_users"].handlers
  /\ last[1].invoked = <<>>
  /\ Selection(last[1]) = <<"unknown">>

\* C24 as stated: the unknown-action message is deterministic: two calls of
\* one entry with the same unknown action return the same message, and the
\* names in it are in the order of the entry's enum.
UnknownCall(c) ==
  /\ "action" \in DOMAIN c.request.args
  /\ c.request.args["action"].kind = "string"
  /\ c.request.args["action"].s # ""
  /\ c.request.args["action"].s \notin DOMAIN tools[c.tool].handlers

C24_UnknownMessageDeterministic ==
  /\ \A j \in 1..Len(last) :
       UnknownCall(last[j]) =>
         last[j].result.content =
           MsgUnknown(last[j].request.args["action"].s, last[j].tool,
                      Enum(last[j].tool))
  /\ (Len(last) = 2 /\ UnknownCall(last[1])
        /\ SameCall(last[1], last[2].tool, last[2].request))
       => last[2].result = last[1].result

\* C24 as the code has it: two calls of one entry with the same unknown action
\* return messages with the same text before the list and the same set of
\* names, each name of the enum once; the order of the names is the order in
\* which the map is iterated and may differ between the calls and from the enum.
MsgPrefix(content) == SubSeq(content, 1, 5)

C24_UnknownMessageSameNames ==
  /\ \A j \in 1..Len(last) :
       UnknownCall(last[j]) =>
         LET c == last[j] IN
         /\ c.result.isError
         /\ MsgPrefix(c.result.content) =
              MsgUnknown(c.request.args["action"].s, c.tool, <<>>)
         /\ ListedNames(c.result.content) = Range(Enum(c.tool))
         /\ Len(c.result.content) = 5 + 2 * Len(Enum(c.tool)) - 1
  /\ (Len(last) = 2 /\ UnknownCall(last[1])
        /\ SameCall(last[1], last[2].tool, last[2].request))
       => /\ MsgPrefix(last[2].result.content) = MsgPrefix(last[1].result.content)
          /\ ListedNames(last[2].result.content)
               = ListedNames(last[1].result.content)

C24_Witness ==
  /\ Len(last) = 2
  /\ ~readOnly
  /\ last[1].tool = "manage_users"
  /\ UnknownCall(last[1])
  /\ SameCall(last[1], last[2].tool, last[2].request)
  /\ last[2].result # last[1].result
  /\ ListedNames(last[1].result.content) = {"list_users", "create_user"}
  /\ ListedNames(last[2].result.content) = {"list_users", "create_user"}

\* C25: the entry registered for a group is a function of the group and the
\* mode alone: its enum, the keys of its dispatch table and its hints are
\* those the group's permitted actions give, whatever other groups the catalog
\* holds, wherever the group stands in it, and in a second registration pass
\* as in the first.
EntryFromGroupAndMode(n, G) ==
  /\ tools[n].tool.name = G.name
  /\ tools[n].tool.description = G.description
  /\ Enum(n) = PermittedNames(G)
  /\ DOMAIN tools[n].handlers = Range(PermittedNames(G))
  /\ Hints(n) = IF PermittedForces(G)
                THEN [G.annotation EXCEPT !.ReadOnlyHint = TRUE,
                                          !.DestructiveHint = FALSE]
                ELSE G.annotation

RegisteringGroups(n) ==
  {g \in 1..Len(defs) : defs[g].name = n /\ PermittedActions(defs[g]) # <<>>}

LastRegistering(n) ==
  CHOOSE g \in RegisteringGroups(n) : \A h \in RegisteringGroups(n) : h <= g

C25_EntryFunctionOfGroupAndMode ==
  /\ (JustRegistered /\ PermittedActions(defs[idx - 1]) # <<>>)
       => EntryFromGroupAndMode(defs[idx - 1].name, defs[idx - 1])
  /\ pc = "serving" =>
       /\ DOMAIN tools = {n \in {defs[g].name : g \in 1..Len(defs)} :
                            RegisteringGroups(n) # {}}
       /\ \A n \in DOMAIN tools :
            EntryFromGroupAndMode(n, defs[LastRegistering(n)])

C25_Witness ==
  /\ JustRegistered
  /\ Len(bound) > Len(PassFactoryCalls(defs, readOnly))
  /\ Len(defs) = 2
  /\ idx = 3
  /\ defs[1].name # defs[2].name
  /\ defs[1].actions = defs[2].actions
  /\ Enum(defs[1].name) = Enum(defs[2].name)
  /\ EntryFromGroupAndMode(defs[2].name, defs[2])

\* C26: read-only mode only removes.  For a group with distinct action names:
\* if read-only mode registers an entry for it then so does the other mode,
\* the read-only enum (the group's read-only actions, in order) is a
\* subsequence of the enum registered with read-only off, and every action
\* dispatchable in read-only mode is dispatchable with read-only off to the
\* same handler.
RECURSIVE IsSubseq(_, _)
IsSubseq(s, u) ==
  IF s = <<>> THEN TRUE
  ELSE IF u = <<>> THEN FALSE
  ELSE IF Head(s) = Head(u) THEN IsSubseq(Tail(s), Tail(u))
  ELSE IsSubseq(s, Tail(u))

IsRead(a) == a.readOnly
ReadActions(def) == SelectSeq(def.actions, IsRead)

DistinctActionNames(def) ==
  Cardinality({def.actions[i].name : i \in 1..Len(def.actions)}) = Len(def.actions)

C26_ReadOnlyModeOnlyRemoves ==
  (JustRegistered /\ DistinctActionNames(defs[idx - 1])) =>
    LET G == defs[idx - 1]
        R == ReadActions(G)
    IN IF readOnly
       THEN R # <<>> =>
              /\ G.name \in DOMAIN tools
              /\ Enum(G.name) # <<>>
              /\ IsSubseq(Enum(G.name), ActionNames(G.actions))
              /\ \A k \in DOMAIN tools[G.name].handlers :
                   \E i \in 1..Len(G.actions) :
                     /\ G.actions[i].name = k
                     /\ G.actions[i].handler = tools[G.name].handlers[k]
       ELSE R # <<>> =>
              /\ G.name \in DOMAIN tools
              /\ IsSubseq(ActionNames(R), Enum(G.name))
              /\ \A i \in 1..Len(R) :
                   /\ R[i].name \in DOMAIN tools[G.name].handlers
                   /\ tools[G.name].handlers[R[i].name] = R[i].handler

C26_Witness ==
  /\ JustRegistered
  /\ ~readOnly
  /\ Len(defs) = 15
  /\ defs[idx - 1].name = "manage_settings"
  /\ ActionNames(ReadActions(defs[idx - 1]))
       = <<"get_settings", "get_public_settings", "get_ssl_settings">>
  /\ Len(Enum("manage_settings")) = 5
  /\ tools["manage_settings"].handlers["get_ssl_settings"] = "HandleGetSSLSettings"

\* C27: the capability resolver changes at most the read-only and destructive
\* hints: the registered entry's title, idempotent hint and open-world hint
\* are the group's declared ones in every mode, also when the read-only values
\* are forced.
C27_OtherHintsKeepDeclaredValues ==
  (JustRegistered /\ PermittedActions(defs[idx - 1]) # <<>>) =>
    LET G == defs[idx - 1] IN
    /\ Hints(G.name).Title = G.annotation.Title
    /\ Hints(G.name).IdempotentHint = G.annotation.IdempotentHint
    /\ Hints(G.name).OpenWorldHint = G.annotation.OpenWorldHint
    /\ Hints(G.name) # G.annotation =>
         /\ Hints(G.name).ReadOnlyHint
         /\ ~Hints(G.name).DestructiveHint

C27_Witness ==
  /\ pc = "serving"
  /\ readOnly
  /\ Len(defs) = 15
  /\ Hints("manage_docker").ReadOnlyHint
  /\ ~Hints("manage_docker").DestructiveHint
  /\ Hints("manage_docker").OpenWorldHint
  /\ Hints("manage_settings").ReadOnlyHint
  /\ Hints("manage_settings").IdempotentHint

\* C29: the user write handlers reached through manage_users call the backend
\* only on valid input and never return a Go error: CreateUser is called only
\* if username, password and role are present strings and role is a valid
\* user role, UpdateUserRole only if id is present and role is valid; in every
\* case the Go error is nil, and a backend failure comes back as a result with
\* the error flag set.
PresentString(args, k) == k \in DOMAIN args /\ args[k].kind = "string"
PresentNumber(args, k) == k \in DOMAIN args /\ args[k].kind = "number"

AbsoluteWithHost(rawURL, schemes) ==
  /\ Len(rawURL) >= 4
  /\ ToLower(rawURL[1]) \in schemes
  /\ rawURL[2] = ":"
  /\ rawURL[3] = "//"
  /\ rawURL[4] \notin UrlSlashes

C30_OnlyHttpOrHttps ==
  \A j \in 1..Len(urlCheck) :
    urlCheck[j].err = NilError
      => AbsoluteWithHost(urlCheck[j].rawURL, {"http", "https"})

\* C30 as the code has it: validateURL returns no error only for an absolute
\* URL whose scheme is http, https or oci (in any letter case) and whose host
\* is not empty; a URL with any other scheme, or with none, is rejected.
C30_OnlyHttpHttpsOrOci ==
  \A j \in 1..Len(urlCheck) :
    LET rawURL == urlCheck[j].rawURL IN
    /\ urlCheck[j].err = NilError
         => AbsoluteWithHost(rawURL, {"http", "https", "oci"})
    /\ (Len(rawURL) >= 2 /\ rawURL[1] \in {"ftp", "example.com"}
          /\ rawURL[2] = ":")
         => urlCheck[j].err # NilError
    /\ (rawURL = <<>> \/ FirstIn(rawURL, {":"}) = 0)
         => urlCheck[j].err # NilError

C30_Witness ==
  /\ urlCheck # <<>>
  /\ urlCheck[1].rawURL = <<"oci", ":", "//", "example.com">>
  /\ urlCheck[1].err = NilError

====
